---- MODULE Spec2Model ----
(***************************************************************************)
(* The real-time sequencing transport of AmenGrid                          *)
(* (src/apps/web/app/page.tsx, second component, lines 1206-3599).         *)
(*                                                                         *)
(* Device time is counted in milliseconds.  The tempos used as inputs are  *)
(* those for which one sixteenth-note step is a whole number of            *)
(* milliseconds, so that every expression of the scheduler is evaluated    *)
(* exactly.  The scheduler timer is taken to fire at its nominal period.   *)
(***************************************************************************)
EXTENDS Integers, Sequences, FiniteSets, TLC

(***************************************************************************)
(* Program constants                                                       *)
(***************************************************************************)
BASE_STEPS_PER_BAR == 16
LOCKED_STEPS_PER_BAR == 16
scheduleAheadMs == 200
lookaheadMs == 25
StartOffsetMs == 1

(***************************************************************************)
(* Bounds of the model                                                     *)
(***************************************************************************)
MaxNow == 4700
MaxNowShort == 2600
MaxRequests == 3
MaxFillRequests == 4
MaxNowSound == 300
MaxNowIds == 2300
MaxSoundRequests == 4
MaxHeard == 4

(***************************************************************************)
(* Inputs                                                                  *)
(***************************************************************************)
NoId == "none"
NoNum == 0 - 1
NoTime == 0 - 1000000
NoLoop == [bars |-> 0, startBarIndex |-> 0]

MainIds == {"A", "B"}
FillIds == {"F", "G"}
patternsById == MainIds \cup FillIds
TempoChoices == {150, 200}
DefaultLoop == [bars |-> 2, startBarIndex |-> 0]
LoopChoices == {[bars |-> 1, startBarIndex |-> 0], DefaultLoop}

Max(a, b) == IF a >= b THEN a ELSE b
Min(a, b) == IF a <= b THEN a ELSE b
Floor(a, b) == a \div b
Ceil(a, b) == 0 - ((0 - a) \div b)

clampTempo(value) == Min(220, Max(60, value))

\* (60 / bpm) * (4 / stepsPerBar) seconds, in milliseconds
StepDuration(bpm, spb) == 240000 \div (bpm * spb)

getPatternStepsById(patternId) ==
  IF patternId = NoId THEN NoId
  ELSE IF patternId \notin patternsById THEN NoId
  ELSE patternId

getLoopParams(bars, startIndex, nextStepsPerBar) ==
  [ startBar       |-> startIndex,
    totalSteps     |-> Max(1, bars * nextStepsPerBar),
    baseTotalSteps |-> Max(1, bars * BASE_STEPS_PER_BAR),
    stepsPerBar    |-> nextStepsPerBar ]

(***************************************************************************)
(* Step events, patterns and role pools                                    *)
(***************************************************************************)
ROLE_BASE == 1000
ROLE_KICK == ROLE_BASE
ROLE_SNARE == ROLE_BASE + 1
ROLE_HAT == ROLE_BASE + 2
ROLE_GHOST == ROLE_BASE + 3

\* gains are counted in hundredths
FullGain == 100

\* sub-trigger times are counted in 1/SubUnit ms, which is exact for every
\* retrig count of the packs (2, 3, 4, 6, 8)
SubUnit == 24
StopTailMs == 10

\* a StepEvent: a bare number, an object {i, r, g} (g = NoNum when absent), or null
Num(i) == [kind |-> "number", i |-> i, r |-> 0, g |-> NoNum]
Obj(i, rr, g) == [kind |-> "object", i |-> i, r |-> rr, g |-> g]
Rest == [kind |-> "null", i |-> 0, r |-> 0, g |-> NoNum]

resolveStepEvent(event) ==
  IF event.kind = "number" THEN [index |-> event.i, retrig |-> 1, gain |-> NoNum]
  ELSE IF event.kind = "null" THEN [index |-> 0 - 1, retrig |-> 1, gain |-> NoNum]
  ELSE [index |-> event.i, retrig |-> event.r,
        gain |-> IF event.g = NoNum THEN FullGain ELSE event.g]

toSliceIndex(event, barOffset) == resolveStepEvent(event).index + barOffset

clamp32(n) == Max(0, Min(31, n))

\* one element of resolveFillOffsets(fillSteps, barStart)
resolveFillOffset(ev, barStart) ==
  IF ev.kind = "null" THEN ev
  ELSE IF ev.i >= ROLE_BASE THEN ev
  ELSE [ev EXCEPT !.i = clamp32(ev.i + barStart)]

\* the steps of the patterns of the pack: mains of 32 steps over two bars,
\* fills of 16 offsets; PatternStep(patternId, i) is element i, counted from 0
PatternLength(patternId) == IF patternId \in {"A", "B"} THEN 32 ELSE 16

PatternStep(patternId, i) ==
  IF patternId = "A"
  THEN CASE i = 1 -> Rest
         [] i = 2 -> Obj(2, 3, NoNum)
         [] i = 3 -> Num(ROLE_KICK)
         [] i % 8 = 4 -> Num(ROLE_SNARE)
         [] i % 8 = 6 -> Obj(ROLE_HAT, 2, NoNum)
         [] i % 8 = 7 -> Obj(ROLE_GHOST, 2, 45)
         [] OTHER -> Num(i)
  ELSE IF patternId = "B"
  THEN CASE i % 4 = 0 -> Num(ROLE_KICK)
         [] i % 4 = 2 -> Rest
         [] OTHER -> Num(31 - i)
  ELSE IF patternId = "F"
  THEN CASE i % 4 = 0 -> Num(ROLE_SNARE)
         [] i % 4 = 1 -> Rest
         [] i % 4 = 2 -> Obj(i, 4, 80)
         [] OTHER -> Num(i)
  ELSE IF i % 2 = 0 THEN Num(15 - i) ELSE Obj(ROLE_HAT, 2, NoNum)

\* the pools used before and without a usable analysis of the loop
buildDefaultRoleSlices(steps) ==
  LET safe(value) == Max(0, Min(steps - 1, value))
      bars == Max(1, (2 * steps + BASE_STEPS_PER_BAR) \div (2 * BASE_STEPS_PER_BAR))
      base(k, per) == ((k - 1) \div per) * BASE_STEPS_PER_BAR
  IN [role \in 0..3 |->
        CASE role = 0 -> [k \in 1..(2 * bars) |-> safe(base(k, 2) + ((k - 1) % 2) * 8)]
          [] role = 1 -> [k \in 1..(2 * bars) |-> safe(base(k, 2) + 4 + ((k - 1) % 2) * 8)]
          [] role = 2 -> [k \in 1..(4 * bars) |-> safe(base(k, 4) + 2 + ((k - 1) % 4) * 4)]
          [] OTHER -> [k \in 1..(4 * bars) |-> safe(base(k, 4) + 3 + ((k - 1) % 4) * 4)]]

\* the pools of a loop selection whose analysis gives the default candidates
roleSlicesOf(loop) == buildDefaultRoleSlices(Max(1, loop.bars * BASE_STEPS_PER_BAR))

DefaultRoleSlices == buildDefaultRoleSlices(32)

\* variant: a preview moves the cursor as a trigger does
getRoleSliceAdvancing(pools, cursors, role, advance) ==
  LET pool == pools[role]
  IN IF Len(pool) = 0 THEN [slice |-> 0, cursors |-> cursors]
     ELSE LET cursor == cursors[role] % Len(pool)
          IN [slice |-> pool[cursor + 1],
              cursors |-> [cursors EXCEPT ![role] = (cursor + 1) % Len(pool)]]

\* getRoleSlice(role, advance): [slice, cursors]
getRoleSlice(pools, cursors, role, advance) ==
  LET pool == pools[role]
  IN IF Len(pool) = 0 THEN [slice |-> 0, cursors |-> cursors]
     ELSE LET cursor == cursors[role] % Len(pool)
          IN [slice |-> pool[cursor + 1],
              cursors |-> IF advance
                          THEN [cursors EXCEPT ![role] = (cursor + 1) % Len(pool)]
                          ELSE cursors]

mapRoleIndex(pools, cursors, index, advance) ==
  IF index < ROLE_BASE THEN [slice |-> index, cursors |-> cursors]
  ELSE getRoleSlice(pools, cursors, (index - ROLE_BASE) % 4, advance)

(***************************************************************************)
(* State                                                                   *)
(***************************************************************************)
VARIABLES
  now,         \* ctx.currentTime as read by the latest tick or start
  isPlaying,   \* isPlayingRef.current
  timer,       \* schedulerRef.current # null
  transport,   \* transportRef.current (live = FALSE stands for null)
  ui,          \* React state read by the handlers
  closure,     \* the loop selection captured by tick when it was created
  emitted,     \* iterations of the scheduling loop in the latest tick
  prev,        \* the last step resolved before the latest tick
  ghost,       \* history kept for the properties only
  budget,      \* requests left
  sound        \* the role pools and cursors, the holds and the tracked triggers

vars == <<now, isPlaying, timer, transport, ui, closure, emitted, prev, ghost, budget,
          sound>>

NullTransport ==
  [ live |-> FALSE,
    startTime |-> 0, loopStartBar |-> 0, playbackStepDuration |-> 0,
    stepsPerBar |-> 0, totalSteps |-> 0, baseTotalSteps |-> 0,
    activeMainId |-> NoId, activeMainSteps |-> NoId, mainBeforeFillId |-> NoId,
    queuedMainId |-> NoId, queuedStepsPerBar |-> NoNum, queuedLoop |-> NoLoop,
    playbackBpm |-> 0, queuedPlaybackBpm |-> NoNum,
    queuedFillId |-> NoId, activeFillId |-> NoId, activeFillSteps |-> NoId,
    fillUntilStep |-> NoNum, fillStartStep |-> NoNum,
    fillStepsRemaining |-> NoNum, fillStepIndex |-> NoNum,
    nextStep |-> 0 ]

NoRec ==
  [ kind |-> "none", stepIndex |-> NoNum, when |-> NoTime, dur |-> 0,
    patternId |-> NoId, fromFill |-> FALSE, fillIdx |-> NoNum, fillEnded |-> FALSE,
    mainApplied |-> FALSE, tempoApplied |-> FALSE, fillActivated |-> FALSE,
    boundary |-> NoTime, tempoB |-> NoNum,
    originOld |-> 0, durOld |-> 0, originNew |-> 0, activeMainId |-> NoId,
    fillBefore |-> NoId, stepsPerBar |-> 0, loop |-> NoLoop,
    rest |-> FALSE, event |-> NoNum, held |-> FALSE, role |-> NoNum,
    mapped |-> NoNum, slice |-> NoNum, retrig |-> 0, gain |-> 0, barOffset |-> 0,
    subs |-> <<>> ]

NoHold == [active |-> FALSE, startIndex |-> 0, offset |-> 0]

\* the refs and state of the sound path while nothing plays
\* nothing rendered yet
NoRender == [patternId |-> NoId, playbackStepDuration |-> 0, baseTotalSteps |-> 0,
             steps |-> <<>>]

SoundInit(pools) ==
  [ roleSlices |-> pools,
    roleCursor |-> [role \in 0..3 |-> 0],
    repeatHoldIndex |-> NoNum,
    reverseHold |-> NoHold,
    scheduledSources |-> 0,
    sourceEndTimes |-> <<>>,
    currentSliceIndex |-> NoNum,
    exports |-> 0,
    rendered |-> NoRender ]

(***************************************************************************)
(* tick: the boundary times, computed once per tick from the device time   *)
(***************************************************************************)
\* variant: mains and fills wait for the next bar line only
BoundariesAtBarLine(tr, t) ==
  LET currentStep == Floor(t - tr.startTime, tr.playbackStepDuration)
      barLine == Ceil(currentStep + 1, tr.stepsPerBar) * tr.stepsPerBar
      timeOf(s) == tr.startTime + s * tr.playbackStepDuration
  IN [ loopBoundaryTime  |-> IF tr.queuedLoop # NoLoop THEN timeOf(barLine) ELSE NoTime,
       mainBoundaryTime  |-> IF tr.queuedMainId # NoId THEN timeOf(barLine) ELSE NoTime,
       stepsBoundaryTime |-> IF tr.queuedStepsPerBar # NoNum THEN timeOf(barLine) ELSE NoTime,
       fillBoundaryTime  |-> IF tr.queuedFillId # NoId THEN timeOf(barLine) ELSE NoTime,
       tempoBoundaryTime |-> IF tr.queuedPlaybackBpm # NoNum THEN timeOf(currentStep + 1) ELSE NoTime,
       tempoBoundaryStep |-> IF tr.queuedPlaybackBpm # NoNum THEN currentStep + 1 ELSE NoNum ]

Boundaries(tr, t) ==
  LET currentStep == Floor(t - tr.startTime, tr.playbackStepDuration)
      stepsPerSwitch == tr.stepsPerBar * 2
      barLine == Ceil(currentStep + 1, tr.stepsPerBar) * tr.stepsPerBar
      phraseLine == Ceil(currentStep + 1, stepsPerSwitch) * stepsPerSwitch
      timeOf(s) == tr.startTime + s * tr.playbackStepDuration
  IN [ loopBoundaryTime  |-> IF tr.queuedLoop # NoLoop THEN timeOf(barLine) ELSE NoTime,
       mainBoundaryTime  |-> IF tr.queuedMainId # NoId THEN timeOf(phraseLine) ELSE NoTime,
       stepsBoundaryTime |-> IF tr.queuedStepsPerBar # NoNum THEN timeOf(barLine) ELSE NoTime,
       fillBoundaryTime  |-> IF tr.queuedFillId # NoId THEN timeOf(phraseLine) ELSE NoTime,
       tempoBoundaryTime |-> IF tr.queuedPlaybackBpm # NoNum THEN timeOf(currentStep + 1) ELSE NoTime,
       tempoBoundaryStep |-> IF tr.queuedPlaybackBpm # NoNum THEN currentStep + 1 ELSE NoNum ]

(***************************************************************************)
(* tick: one iteration of the scheduling loop.  A frame f carries the      *)
(* transport, the React state written by the tick, the boundary times,     *)
(* the step under way (stepIndex, when, cur) and the iterations so far.    *)
(***************************************************************************)
LoopChangeDue(f) ==
  /\ f.tr.queuedLoop # NoLoop
  /\ f.b.loopBoundaryTime # NoTime
  /\ f.when >= f.b.loopBoundaryTime

\* variant: the loop change leaves its request and boundary time in place
ApplyLoopChangeKeepingRequest(f) ==
  LET nextLoop == f.tr.queuedLoop
      nextParams == getLoopParams(nextLoop.bars, nextLoop.startBarIndex, LOCKED_STEPS_PER_BAR)
  IN [f EXCEPT
        !.tr.loopStartBar = nextParams.startBar,
        !.tr.totalSteps = nextParams.totalSteps,
        !.tr.baseTotalSteps = nextParams.baseTotalSteps,
        !.tr.stepsPerBar = nextParams.stepsPerBar,
        !.tr.startTime = f.b.loopBoundaryTime,
        !.tr.nextStep = 0,
        !.ui.activeLoop = nextLoop,
        !.out = Append(f.out, [f.cur EXCEPT !.kind = "loop",
                                            !.loop = nextLoop,
                                            !.boundary = f.b.loopBoundaryTime,
                                            !.originNew = f.b.loopBoundaryTime])]

ApplyLoopChange(f) ==
  LET nextLoop == f.tr.queuedLoop
      nextParams == getLoopParams(nextLoop.bars, nextLoop.startBarIndex, LOCKED_STEPS_PER_BAR)
  IN [f EXCEPT
        !.tr.loopStartBar = nextParams.startBar,
        !.tr.totalSteps = nextParams.totalSteps,
        !.tr.baseTotalSteps = nextParams.baseTotalSteps,
        !.tr.stepsPerBar = nextParams.stepsPerBar,
        !.tr.startTime = f.b.loopBoundaryTime,
        !.tr.nextStep = 0,
        !.tr.queuedLoop = NoLoop,
        !.ui.activeLoop = nextLoop,
        !.ui.queuedLoop = NoLoop,
        !.b.loopBoundaryTime = NoTime,
        !.out = Append(f.out, [f.cur EXCEPT !.kind = "loop",
                                            !.loop = nextLoop,
                                            !.boundary = f.b.loopBoundaryTime,
                                            !.originNew = f.b.loopBoundaryTime])]

\* variant: a main change does not wait for the fill to finish
MainChangeDueDuringFill(f) ==
  /\ f.tr.queuedMainId # NoId
  /\ f.b.mainBoundaryTime # NoTime
  /\ f.when >= f.b.mainBoundaryTime

MainChangeDue(f) ==
  /\ f.tr.activeFillId = NoId
  /\ f.tr.queuedMainId # NoId
  /\ f.b.mainBoundaryTime # NoTime
  /\ f.when >= f.b.mainBoundaryTime

ApplyMainChange(f) ==
  IF MainChangeDue(f)
  THEN [f EXCEPT
          !.tr.activeMainId = f.tr.queuedMainId,
          !.tr.activeMainSteps = getPatternStepsById(f.tr.queuedMainId),
          !.tr.queuedMainId = NoId,
          !.ui.activeMainId = f.tr.queuedMainId,
          !.b.mainBoundaryTime = NoTime,
          !.cur.mainApplied = TRUE]
  ELSE f

StepsChangeDue(f) ==
  /\ f.tr.queuedStepsPerBar # NoNum
  /\ f.b.stepsBoundaryTime # NoTime
  /\ f.when >= f.b.stepsBoundaryTime

\* variant: the resolution change takes eighths
ApplyStepsChangeToEighths(f, cl) ==
  LET nextSteps == 8
      nextParams == getLoopParams(cl.activeLoop.bars, cl.activeLoop.startBarIndex, nextSteps)
  IN [f EXCEPT
        !.tr.stepsPerBar = nextParams.stepsPerBar,
        !.tr.totalSteps = nextParams.totalSteps,
        !.tr.baseTotalSteps = nextParams.baseTotalSteps,
        !.tr.playbackStepDuration = StepDuration(f.tr.playbackBpm, nextParams.stepsPerBar),
        !.tr.startTime = f.b.stepsBoundaryTime,
        !.tr.nextStep = 0,
        !.tr.queuedStepsPerBar = NoNum,
        !.ui.queuedStepsPerBar = NoNum,
        !.b.stepsBoundaryTime = NoTime,
        !.out = Append(f.out, [f.cur EXCEPT !.kind = "steps",
                                            !.activeMainId = f.tr.activeMainId,
                                            !.boundary = f.b.stepsBoundaryTime,
                                            !.originNew = f.b.stepsBoundaryTime])]

ApplyStepsChange(f, cl) ==
  LET nextSteps == LOCKED_STEPS_PER_BAR
      nextParams == getLoopParams(cl.activeLoop.bars, cl.activeLoop.startBarIndex, nextSteps)
  IN [f EXCEPT
        !.tr.stepsPerBar = nextParams.stepsPerBar,
        !.tr.totalSteps = nextParams.totalSteps,
        !.tr.baseTotalSteps = nextParams.baseTotalSteps,
        !.tr.playbackStepDuration = StepDuration(f.tr.playbackBpm, nextParams.stepsPerBar),
        !.tr.startTime = f.b.stepsBoundaryTime,
        !.tr.nextStep = 0,
        !.tr.queuedStepsPerBar = NoNum,
        !.ui.queuedStepsPerBar = NoNum,
        !.b.stepsBoundaryTime = NoTime,
        !.out = Append(f.out, [f.cur EXCEPT !.kind = "steps",
                                            !.activeMainId = f.tr.activeMainId,
                                            !.boundary = f.b.stepsBoundaryTime,
                                            !.originNew = f.b.stepsBoundaryTime])]

\* variant: the tick never finds a tempo change due
TempoChangeNeverDue(f) == FALSE

TempoChangeDue(f) ==
  /\ f.tr.queuedPlaybackBpm # NoNum
  /\ f.b.tempoBoundaryTime # NoTime
  /\ f.b.tempoBoundaryStep # NoNum
  /\ f.when >= f.b.tempoBoundaryTime

ApplyTempoChange(f) ==
  IF TempoChangeDue(f)
  THEN LET nextTempo == f.tr.queuedPlaybackBpm
           nextStepDuration == StepDuration(nextTempo, f.tr.stepsPerBar)
           origin == f.b.tempoBoundaryTime - f.b.tempoBoundaryStep * nextStepDuration
       IN [f EXCEPT
             !.tr.playbackBpm = nextTempo,
             !.tr.playbackStepDuration = nextStepDuration,
             !.tr.startTime = origin,
             !.tr.queuedPlaybackBpm = NoNum,
             !.ui.playbackBpm = nextTempo,
             !.b.tempoBoundaryTime = NoTime,
             !.b.tempoBoundaryStep = NoNum,
             !.when = origin + f.stepIndex * nextStepDuration,
             !.cur.tempoApplied = TRUE,
             !.cur.tempoB = f.b.tempoBoundaryStep,
             !.cur.originOld = f.tr.startTime,
             !.cur.durOld = f.tr.playbackStepDuration,
             !.cur.originNew = origin]
  ELSE f

FillDue(f) ==
  /\ f.tr.queuedFillId # NoId
  /\ f.tr.activeFillId = NoId
  /\ f.b.fillBoundaryTime # NoTime
  /\ f.when >= f.b.fillBoundaryTime

\* variant: the fill saves the first main pattern of the pack
ActivateFillSavingFirstMain(f) ==
  IF FillDue(f)
  THEN [f EXCEPT
          !.tr.activeFillId = f.tr.queuedFillId,
          !.tr.queuedFillId = NoId,
          !.tr.mainBeforeFillId = "A",
          !.tr.fillStepsRemaining = f.tr.stepsPerBar,
          !.tr.fillStepIndex = 0,
          !.tr.fillStartStep = f.stepIndex,
          !.tr.fillUntilStep = f.stepIndex + f.tr.stepsPerBar,
          !.tr.activeFillSteps = getPatternStepsById(f.tr.queuedFillId),
          !.b.fillBoundaryTime = NoTime,
          !.cur.fillActivated = TRUE]
  ELSE f

ActivateFill(f) ==
  IF FillDue(f)
  THEN [f EXCEPT
          !.tr.activeFillId = f.tr.queuedFillId,
          !.tr.queuedFillId = NoId,
          !.tr.mainBeforeFillId = f.tr.activeMainId,
          !.tr.fillStepsRemaining = f.tr.stepsPerBar,
          !.tr.fillStepIndex = 0,
          !.tr.fillStartStep = f.stepIndex,
          !.tr.fillUntilStep = f.stepIndex + f.tr.stepsPerBar,
          !.tr.activeFillSteps = getPatternStepsById(f.tr.queuedFillId),
          !.b.fillBoundaryTime = NoTime,
          !.cur.fillActivated = TRUE]
  ELSE f

\* variant: the fill ends when the step counter reaches fillUntilStep
FillUntilStep(tr) ==
  LET counted == [tr EXCEPT !.fillStepIndex = tr.fillStepIndex + 1]
  IN IF tr.nextStep >= tr.fillUntilStep
     THEN LET cleared == [counted EXCEPT !.activeFillId = NoId,
                                         !.activeFillSteps = NoId,
                                         !.fillStepsRemaining = NoNum,
                                         !.fillStepIndex = NoNum,
                                         !.fillStartStep = NoNum,
                                         !.fillUntilStep = NoNum]
          IN IF cleared.mainBeforeFillId # NoId
             THEN [cleared EXCEPT !.activeMainId = cleared.mainBeforeFillId,
                                  !.mainBeforeFillId = NoId]
             ELSE cleared
     ELSE counted

\* variant: the return to the saved main pattern discards a pending main request
FillEndDropsQueuedMain(tr) ==
  LET counted == [tr EXCEPT !.fillStepIndex = tr.fillStepIndex + 1,
                            !.fillStepsRemaining = tr.fillStepsRemaining - 1]
  IN IF counted.fillStepsRemaining <= 0
     THEN LET cleared == [counted EXCEPT !.activeFillId = NoId,
                                         !.activeFillSteps = NoId,
                                         !.fillStepsRemaining = NoNum,
                                         !.fillStepIndex = NoNum,
                                         !.fillStartStep = NoNum,
                                         !.fillUntilStep = NoNum]
          IN IF cleared.mainBeforeFillId # NoId
             THEN [cleared EXCEPT !.activeMainId = cleared.mainBeforeFillId,
                                  !.mainBeforeFillId = NoId,
                                  !.queuedMainId = NoId]
             ELSE cleared
     ELSE counted

\* variant: the return to the main pattern leaves mainBeforeFillId set
FillCountdownKeepingSaved(tr) ==
  LET counted == [tr EXCEPT !.fillStepIndex = tr.fillStepIndex + 1,
                            !.fillStepsRemaining = tr.fillStepsRemaining - 1]
  IN IF counted.fillStepsRemaining <= 0
     THEN LET cleared == [counted EXCEPT !.activeFillId = NoId,
                                         !.activeFillSteps = NoId,
                                         !.fillStepsRemaining = NoNum,
                                         !.fillStepIndex = NoNum,
                                         !.fillStartStep = NoNum,
                                         !.fillUntilStep = NoNum]
          IN IF cleared.mainBeforeFillId # NoId
             THEN [cleared EXCEPT !.activeMainId = cleared.mainBeforeFillId]
             ELSE cleared
     ELSE counted

\* the fill countdown, and the return to the main pattern after its last step
FillCountdown(tr) ==
  LET counted == [tr EXCEPT !.fillStepIndex = tr.fillStepIndex + 1,
                            !.fillStepsRemaining = tr.fillStepsRemaining - 1]
  IN IF counted.fillStepsRemaining <= 0
     THEN LET cleared == [counted EXCEPT !.activeFillId = NoId,
                                         !.activeFillSteps = NoId,
                                         !.fillStepsRemaining = NoNum,
                                         !.fillStepIndex = NoNum,
                                         !.fillStartStep = NoNum,
                                         !.fillUntilStep = NoNum]
          IN IF cleared.mainBeforeFillId # NoId
             THEN [cleared EXCEPT !.activeMainId = cleared.mainBeforeFillId,
                                  !.mainBeforeFillId = NoId]
             ELSE cleared
     ELSE counted

\* the step event of the fill branch: [index, retrig, gain, barOffset, rest]
fillEvent(tr, activeSteps) ==
  LET barsInLoop == Max(1, (2 * tr.baseTotalSteps + BASE_STEPS_PER_BAR)
                             \div (2 * BASE_STEPS_PER_BAR))
      barOffset == Min(1, barsInLoop - 1) * BASE_STEPS_PER_BAR
      currentBar == Floor(tr.fillStepIndex, tr.stepsPerBar)
      barStart == IF currentBar % 2 = 0 THEN 0 ELSE 16
      baseIndex == Floor(tr.fillStepIndex * BASE_STEPS_PER_BAR, tr.stepsPerBar)
      stepEvent == resolveFillOffset(
                     PatternStep(activeSteps, baseIndex % PatternLength(activeSteps)),
                     barStart)
      resolved == resolveStepEvent(stepEvent)
  IN [index |-> resolved.index + barOffset, retrig |-> resolved.retrig,
      gain |-> IF resolved.gain = NoNum THEN FullGain ELSE resolved.gain,
      barOffset |-> barOffset, rest |-> (stepEvent.kind = "null")]

\* the step event of the main branch
mainEventClipped(tr, activeSteps, stepIndex) ==
  LET baseStepIndex == Floor((stepIndex % tr.totalSteps) * tr.baseTotalSteps, tr.totalSteps)
      k == baseStepIndex % tr.baseTotalSteps
      last == PatternLength(activeSteps) - 1
      stepEvent == PatternStep(activeSteps, IF k > last THEN last ELSE k)
      resolved == resolveStepEvent(stepEvent)
  IN [index |-> resolved.index, retrig |-> resolved.retrig,
      gain |-> IF resolved.gain = NoNum THEN FullGain ELSE resolved.gain,
      barOffset |-> 0, rest |-> (stepEvent.kind = "null")]

mainEvent(tr, activeSteps, stepIndex) ==
  LET baseStepIndex == Floor((stepIndex % tr.totalSteps) * tr.baseTotalSteps, tr.totalSteps)
      k == baseStepIndex % tr.baseTotalSteps
      stepEvent == PatternStep(activeSteps, k % PatternLength(activeSteps))
      resolved == resolveStepEvent(stepEvent)
  IN [index |-> resolved.index, retrig |-> resolved.retrig,
      gain |-> IF resolved.gain = NoNum THEN FullGain ELSE resolved.gain,
      barOffset |-> 0, rest |-> (stepEvent.kind = "null")]

\* the repeat and reverse holds: [sliceIndex, held, snd]
ApplyHolds(snd, sliceIndex, baseSteps) ==
  IF snd.repeatHoldIndex # NoNum
  THEN [sliceIndex |-> snd.repeatHoldIndex, held |-> TRUE, snd |-> snd]
  ELSE IF snd.reverseHold.active
  THEN [sliceIndex |-> (snd.reverseHold.startIndex - snd.reverseHold.offset) % baseSteps,
        held |-> TRUE,
        snd |-> [snd EXCEPT !.reverseHold.offset = snd.reverseHold.offset + 1]]
  ELSE [sliceIndex |-> sliceIndex, held |-> FALSE, snd |-> snd]

\* variant: every sub-trigger lasts the whole step
SubDurWhole(dur, subCount) == dur * SubUnit

SubDur(dur, subCount) == (dur * SubUnit) \div subCount

\* variant: a rejected sub-trigger abandons the rest of the step
AfterRejectionAbandon(acc, job, sub) == job.subCount

AfterRejection(acc, job, sub) == sub + 1

\* the sub-trigger loop of one step, from sub-trigger number sub on;
\* acc = [subs, snd, calls], job = [when, dur, baseIndex, subCount, gain, failAt]
RECURSIVE ScheduleSubs(_, _, _)
ScheduleSubs(acc, job, sub) ==
  IF sub >= job.subCount THEN acc
  ELSE LET subDur == SubDur(job.dur, job.subCount)
           subStart == job.when * SubUnit + sub * subDur
           subEnd == subStart + subDur
           call == acc.calls + 1
           rejected == (call = job.failAt)
           trigger == [start |-> subStart, dur |-> subDur, slice |-> job.baseIndex,
                       gain |-> job.gain, ok |-> ~rejected]
       IN IF rejected
          THEN ScheduleSubs([acc EXCEPT !.subs = Append(acc.subs, trigger), !.calls = call],
                            job, AfterRejection(acc, job, sub))
          ELSE ScheduleSubs(
                 [acc EXCEPT
                    !.subs = Append(acc.subs, trigger),
                    !.calls = call,
                    !.snd.scheduledSources = acc.snd.scheduledSources + 1,
                    !.snd.sourceEndTimes = Append(acc.snd.sourceEndTimes,
                                                  subEnd + StopTailMs * SubUnit)],
                 job, sub + 1)

\* what the step leaves once its sub-triggers are scheduled: h is the outcome of
\* the holds, m of the role mapping, done of the sub-trigger loop
SoundedStep(f, rec, ev, h, m, done) ==
  [f EXCEPT
     !.snd = done.snd,
     !.calls = done.calls,
     !.out = Append(f.out,
               [rec EXCEPT !.rest = ev.rest,
                           !.event = ev.index,
                           !.barOffset = ev.barOffset,
                           !.held = h.held,
                           !.role = IF h.sliceIndex >= ROLE_BASE
                                    THEN (h.sliceIndex - ROLE_BASE) % 4 ELSE NoNum,
                           !.mapped = m.slice,
                           !.slice = m.slice % (f.tr.baseTotalSteps),
                           !.retrig = ev.retrig,
                           !.gain = ev.gain,
                           !.subs = done.subs])]

\* the sub-trigger loop of the step on the slice that the role mapping gave
MappedStep(f, rec, ev, h, m) ==
  SoundedStep(f, rec, ev, h, m,
              ScheduleSubs([subs |-> <<>>,
                            snd |-> [h.snd EXCEPT !.roleCursor = m.cursors],
                            calls |-> f.calls],
                           [when |-> f.when, dur |-> f.tr.playbackStepDuration,
                            baseIndex |-> m.slice % (f.tr.baseTotalSteps),
                            subCount |-> Max(1, ev.retrig),
                            gain |-> ev.gain, failAt |-> f.failAt], 0))

\* the role mapping of the step once the holds have had their say
HeldStep(f, rec, ev, h) ==
  MappedStep(f, rec, ev, h,
             mapRoleIndex(h.snd.roleSlices, h.snd.roleCursor, h.sliceIndex, TRUE))

\* from the rest test to the end of the sub-trigger loop
SoundStep(f, rec, ev) ==
  IF ev.index < 0
  THEN [f EXCEPT !.out = Append(f.out, [rec EXCEPT !.rest = ev.rest, !.event = ev.index,
                                                   !.barOffset = ev.barOffset])]
  ELSE HeldStep(f, rec, ev, ApplyHolds(f.snd, ev.index, f.tr.baseTotalSteps))

ResolveStep(f) ==
  LET tr == f.tr
      activePatternId == IF tr.activeFillId # NoId THEN tr.activeFillId ELSE tr.activeMainId
      held == IF tr.activeFillId # NoId THEN tr.activeFillSteps ELSE tr.activeMainSteps
      activeSteps == IF held # NoId THEN held ELSE getPatternStepsById(activePatternId)
  IN IF activePatternId = NoId \/ activeSteps = NoId
     THEN [f EXCEPT !.out = Append(f.out, [f.cur EXCEPT !.kind = "skip",
                                                        !.when = f.when,
                                                        !.dur = tr.playbackStepDuration,
                                                        !.activeMainId = tr.activeMainId])]
     ELSE IF tr.activeFillId # NoId /\ tr.fillStepsRemaining # NoNum /\ tr.fillStepIndex # NoNum
     THEN LET after == FillCountdown(tr)
              g == [f EXCEPT
                      !.tr = after,
                      !.ui.activeMainId =
                         IF after.activeFillId = NoId /\ tr.mainBeforeFillId # NoId
                         THEN tr.mainBeforeFillId ELSE f.ui.activeMainId]
              rec == [f.cur EXCEPT !.kind = "step",
                                   !.when = f.when,
                                   !.dur = tr.playbackStepDuration,
                                   !.patternId = activeSteps,
                                   !.fromFill = TRUE,
                                   !.fillIdx = tr.fillStepIndex,
                                   !.fillEnded = (after.activeFillId = NoId),
                                   !.activeMainId = after.activeMainId]
          IN SoundStep(g, rec, fillEvent(tr, activeSteps))
     ELSE LET rec == [f.cur EXCEPT !.kind = "step",
                                   !.when = f.when,
                                   !.dur = tr.playbackStepDuration,
                                   !.patternId = activeSteps,
                                   !.activeMainId = tr.activeMainId]
          IN SoundStep(f, rec, mainEvent(tr, activeSteps, f.stepIndex))

LoopBody(f0, cl) ==
  LET stepIndex == f0.tr.nextStep
      when == f0.tr.startTime + stepIndex * f0.tr.playbackStepDuration
      f == [f0 EXCEPT !.tr.nextStep = stepIndex + 1,
                      !.stepIndex = stepIndex,
                      !.when = when,
                      !.cur = [NoRec EXCEPT !.stepIndex = stepIndex, !.when = when,
                                            !.fillBefore = f0.tr.activeFillId,
                                            !.stepsPerBar = f0.tr.stepsPerBar]]
  IN IF LoopChangeDue(f) THEN ApplyLoopChange(f)
     ELSE LET f1 == ApplyMainChange(f)
          IN IF StepsChangeDue(f1) THEN ApplyStepsChange(f1, cl)
             ELSE ResolveStep(ActivateFill(ApplyTempoChange(f1)))

RECURSIVE TickLoop(_, _, _)
TickLoop(f, t, cl) ==
  IF f.tr.startTime + f.tr.nextStep * f.tr.playbackStepDuration < t + scheduleAheadMs
  THEN TickLoop(LoopBody(f, cl), t, cl)
  ELSE f

\* the triggers still tracked once those that have ended by device time t are dropped
PruneEnded(ends, t) == SelectSeq(ends, LAMBDA endTime : ~(t * SubUnit >= endTime))

\* what the callback leaves behind of its working state
tickResult(f) == [tr |-> f.tr, ui |-> f.ui, out |-> f.out, snd |-> f.snd]

\* the whole callback: [tr, ui, out, snd] after the tick that reads device time t;
\* failAt numbers the sub-trigger of this tick that the sink rejects (0: none)
tick(tr, u, playing, t, cl, snd, failAt) ==
  IF ~tr.live \/ ~playing
  THEN [tr |-> tr, ui |-> u, out |-> <<>>, snd |-> snd]
  ELSE tickResult(
         TickLoop([tr |-> tr, ui |-> u, b |-> Boundaries(tr, t),
                   stepIndex |-> 0, when |-> 0, cur |-> NoRec, out |-> <<>>,
                   snd |-> [snd EXCEPT !.sourceEndTimes = PruneEnded(snd.sourceEndTimes, t)],
                   failAt |-> failAt, calls |-> 0], t, cl))

(***************************************************************************)
(* History variables.  They are written by the actions and read only by    *)
(* the properties.                                                         *)
(***************************************************************************)
GhostInit ==
  [ reqs |-> 0,                \* mutation requests made in this session
    lastMain |-> NoId, lastFill |-> NoId, lastTempo |-> NoNum, lastLoop |-> NoLoop,
    fillCount |-> 0,           \* steps resolved from the fill since it became Active
    fillSpb |-> NoNum,         \* stepsPerBar when it became Active
    fillLen |-> NoNum,         \* steps resolved from the last fill that ended
    fillTouched |-> FALSE,     \* a loop, resolution or tempo change was applied while Active
    lenTouched |-> FALSE,      \* ... while the last fill that ended was Active
    mainAtQueue |-> NoId,      \* active main when the fill was requested
    mainAtActivation |-> NoId, \* active main when the fill became Active
    restoredTo |-> NoId, restoredQueue |-> NoId, restoredAct |-> NoId,
    fillEndStep |-> NoNum,     \* index of the last step of the last fill that ended
    overwrote |-> FALSE,       \* a main request replaced a different pending one
    c1 |-> FALSE,              \* the only request was a fill made while step 5 sounded
    c6 |-> NoId,               \* the only requests were a fill, then this main while it was Active
    preview |-> [role \in 0..3 |-> NoNum],
                               \* per role, the slice shown for it since its last trigger
    previewCount |-> [role \in 0..3 |-> 0],
                               \* ... and how often it was shown, up to twice
    previewUsed |-> FALSE,     \* a trigger took the slice of a role shown twice before it
    stopTracked |-> FALSE,     \* the last stop found triggers tracked as scheduled
    stopHeld |-> FALSE,        \* ... and a hold in force
    late |-> FALSE,            \* a timer callback has run since, with no timer set
    heard |-> <<>> ]           \* the last steps given to the sink: start time and slice

\* the steps that may still be sounding or waiting in the sink: the look-ahead
\* never holds more than MaxHeard of them
LastFew(log) ==
  IF Len(log) <= MaxHeard THEN log ELSE SubSeq(log, Len(log) - MaxHeard + 1, Len(log))

Observe(g, rec) ==
  LET g1 == IF rec.fillActivated
            THEN [g EXCEPT !.fillCount = 0, !.fillSpb = rec.stepsPerBar,
                           !.fillTouched = FALSE,
                           !.mainAtActivation = rec.activeMainId]
            ELSE g
      g2 == IF rec.fillBefore # NoId /\ (rec.kind \in {"loop", "steps"} \/ rec.tempoApplied)
            THEN [g1 EXCEPT !.fillTouched = TRUE]
            ELSE g1
      g4 == IF rec.kind = "step" /\ rec.fromFill
            THEN [g2 EXCEPT !.fillCount = g2.fillCount + 1]
            ELSE g2
      g3 == IF rec.kind = "step" /\ rec.role # NoNum
            THEN [g4 EXCEPT !.preview[rec.role] = NoNum,
                            !.previewCount[rec.role] = 0,
                            !.previewUsed = g4.previewUsed \/ g4.previewCount[rec.role] = 2]
            ELSE g4
      g5 == IF rec.kind = "step" /\ \E k \in DOMAIN rec.subs : rec.subs[k].ok
            THEN [g3 EXCEPT !.heard = LastFew(Append(g3.heard, [when |-> rec.when,
                                                                 slice |-> rec.slice]))]
            ELSE g3
  IN IF rec.fillEnded
     THEN [g5 EXCEPT !.fillLen = g5.fillCount,
                     !.lenTouched = g5.fillTouched,
                     !.restoredTo = rec.activeMainId,
                     !.restoredQueue = g5.mainAtQueue,
                     !.restoredAct = g5.mainAtActivation,
                     !.fillEndStep = rec.stepIndex]
     ELSE g5

RECURSIVE ObserveAll(_, _, _)
ObserveAll(g, out, i) ==
  IF i > Len(out) THEN g ELSE ObserveAll(Observe(g, out[i]), out, i + 1)

RECURSIVE LastStepFrom(_, _, _)
LastStepFrom(p, out, i) ==
  IF i = 0 THEN p
  ELSE IF out[i].kind = "step" THEN out[i]
  ELSE LastStepFrom(p, out, i - 1)

LastStep(p, out) == LastStepFrom(p, out, Len(out))

currentStepOf(tr, t) == Floor(t - tr.startTime, tr.playbackStepDuration)

\* any further request ends the scenarios of c1 and c6
Requested(g) == [g EXCEPT !.reqs = g.reqs + 1, !.c1 = FALSE, !.c6 = NoId]

(***************************************************************************)
(* Handlers                                                                *)
(***************************************************************************)
FirstMain == "A"

displayLoop(u) == IF u.queuedLoop # NoLoop THEN u.queuedLoop ELSE u.activeLoop

\* stopPatternPlayback: what it leaves of the transport, timer and flag
stopPatternPlayback == [tr |-> NullTransport, timer |-> FALSE, playing |-> FALSE]

\* variant: the holds outlive the stop
stopSoundKeepingHolds(snd) ==
  [snd EXCEPT !.scheduledSources = 0,
              !.sourceEndTimes = <<>>,
              !.currentSliceIndex = NoNum]

\* stopPatternPlayback: what it leaves of the sound path
stopSound(snd) ==
  [snd EXCEPT !.scheduledSources = 0,
              !.sourceEndTimes = <<>>,
              !.currentSliceIndex = NoNum,
              !.repeatHoldIndex = NoNum,
              !.reverseHold = NoHold]

\* variant: the pools are rebuilt under the cursors
rebuildKeepingCursors(snd, loop) == [snd EXCEPT !.roleSlices = roleSlicesOf(loop)]

\* the effects that follow a change of the displayed loop selection: the pools
\* are rebuilt and every cursor starts again
rebuildRoleSlices(snd, loop) ==
  [snd EXCEPT !.roleSlices = roleSlicesOf(loop),
              !.roleCursor = [role \in 0..3 |-> 0]]

\* schedulePattern up to the creation of the transport
newTransport(patternId, u, t) ==
  LET activeParams == getLoopParams(u.activeLoop.bars, u.activeLoop.startBarIndex,
                                    LOCKED_STEPS_PER_BAR)
  IN [ NullTransport EXCEPT
         !.live = TRUE,
         !.startTime = t + StartOffsetMs,
         !.loopStartBar = activeParams.startBar,
         !.playbackStepDuration = StepDuration(u.playbackBpm, LOCKED_STEPS_PER_BAR),
         !.stepsPerBar = LOCKED_STEPS_PER_BAR,
         !.totalSteps = activeParams.totalSteps,
         !.baseTotalSteps = activeParams.baseTotalSteps,
         !.activeMainId = patternId,
         !.activeMainSteps = getPatternStepsById(patternId),
         !.queuedStepsPerBar = u.queuedStepsPerBar,
         !.queuedLoop = u.queuedLoop,
         !.playbackBpm = u.playbackBpm ]

\* schedulePattern after its first tick: the interval timer is set
started(r) == [tr |-> r.tr, ui |-> r.ui, out |-> r.out, timer |-> TRUE, snd |-> r.snd]

\* startMain when the sink rejects sub-trigger number failAt of the first tick
\* (0: none): [tr, ui, out, timer, snd] once startMain(patternId) has returned
startMainRejecting(patternId, u, t, snd, failAt) ==
  LET u1 == [u EXCEPT !.activeMainId = patternId]
  IN IF patternId \notin patternsById
     THEN [tr |-> NullTransport, ui |-> u1, out |-> <<>>, timer |-> FALSE,
           snd |-> stopSound(snd)]
     ELSE started(tick(newTransport(patternId, u1, t), u1, TRUE, t,
                       [activeLoop |-> u1.activeLoop], stopSound(snd), failAt))

startMain(patternId, u, t, snd) == startMainRejecting(patternId, u, t, snd, 0)

\* variant: a request made while another is pending queues behind it and is dropped
queueMainBehind(tr, patternId) ==
  IF tr.live /\ tr.queuedMainId = NoId THEN [tr EXCEPT !.queuedMainId = patternId] ELSE tr

queueMain(tr, patternId) ==
  IF tr.live THEN [tr EXCEPT !.queuedMainId = patternId] ELSE tr

queueFill(tr, patternId) ==
  IF tr.live THEN [tr EXCEPT !.queuedFillId = patternId] ELSE tr

queueTempo(tr, nextTempo) ==
  IF tr.live THEN [tr EXCEPT !.queuedPlaybackBpm = nextTempo] ELSE tr

queueLoop(tr, queued) ==
  IF tr.live THEN [tr EXCEPT !.queuedLoop = queued] ELSE tr

queueStepsPerBar(tr, safeSteps) ==
  IF tr.live THEN [tr EXCEPT !.queuedStepsPerBar = safeSteps] ELSE tr

\* the fill that startFill puts on the transport it has just started
fillFromStart(tr, patternId, fallback) ==
  IF tr.live
  THEN [tr EXCEPT
          !.mainBeforeFillId = IF tr.activeMainId # NoId THEN tr.activeMainId ELSE fallback,
          !.activeFillId = patternId,
          !.activeFillSteps = getPatternStepsById(patternId),
          !.fillStepsRemaining = tr.stepsPerBar,
          !.fillStepIndex = 0,
          !.fillStartStep = tr.nextStep,
          !.fillUntilStep = tr.nextStep + tr.stepsPerBar]
  ELSE tr

(***************************************************************************)
(* Actions                                                                 *)
(***************************************************************************)
UiInit ==
  { [ activeLoop |-> DefaultLoop, queuedLoop |-> NoLoop, playbackBpm |-> bpm,
      queuedStepsPerBar |-> NoNum, activeMainId |-> FirstMain ]
    : bpm \in TempoChoices }

\* the page once a track is loaded and analysed: nothing plays
Mounted ==
  /\ now = 0
  /\ isPlaying = FALSE
  /\ timer = FALSE
  /\ transport = NullTransport
  /\ ui \in UiInit
  /\ closure = [activeLoop |-> NoLoop]
  /\ emitted = <<>>
  /\ prev = NoRec
  /\ ghost = GhostInit

\* the role pools of the selected loop, every cursor at its start
AnalysedDefault == sound = SoundInit(roleSlicesOf(ui.activeLoop))

Init == Mounted /\ AnalysedDefault /\ budget = MaxRequests

InitFill == Mounted /\ AnalysedDefault /\ budget = MaxFillRequests

\* the history at the start of a session: a loop request made before it is still pending
GhostAtStart(u) == [GhostInit EXCEPT !.lastLoop = u.queuedLoop]

\* the history that outlives a session: what was shown for each role
\* the pools were rebuilt: what was shown of the old ones no longer counts
DropPreview(g) ==
  [g EXCEPT !.preview = GhostInit.preview, !.previewCount = GhostInit.previewCount]

KeepPreview(g, old) ==
  [g EXCEPT !.preview = old.preview, !.previewCount = old.previewCount,
            !.previewUsed = old.previewUsed]

\* a main pad, or the space key, while stopped
StartMain(patternId) ==
  /\ ~isPlaying
  /\ budget > 0
  /\ \E r \in {startMain(patternId, ui, now, sound)} :
        /\ isPlaying' = TRUE
        /\ timer' = r.timer
        /\ transport' = r.tr
        /\ ui' = r.ui
        /\ closure' = [activeLoop |-> ui.activeLoop]
        /\ emitted' = r.out
        /\ prev' = NoRec
        /\ ghost' = ObserveAll(KeepPreview(GhostAtStart(ui), ghost), r.out, 1)
        /\ sound' = r.snd
  /\ budget' = budget - 1
  /\ UNCHANGED now

\* a main pad, or the space key, while stopped, when the sink rejects sub-trigger
\* number failAt of the first tick
StartMainRejecting(patternId, failAt) ==
  /\ ~isPlaying
  /\ budget > 0
  /\ \E r \in {startMainRejecting(patternId, ui, now, sound, failAt)} :
        /\ \E i \in DOMAIN r.out : \E k \in DOMAIN r.out[i].subs : ~r.out[i].subs[k].ok
        /\ isPlaying' = TRUE
        /\ timer' = r.timer
        /\ transport' = r.tr
        /\ ui' = r.ui
        /\ closure' = [activeLoop |-> ui.activeLoop]
        /\ emitted' = r.out
        /\ prev' = NoRec
        /\ ghost' = ObserveAll(KeepPreview(GhostAtStart(ui), ghost), r.out, 1)
        /\ sound' = r.snd
  /\ budget' = budget - 1
  /\ UNCHANGED now

\* a main pad while playing
QueueMain(patternId) ==
  /\ isPlaying
  /\ budget > 0
  /\ transport' = queueMain(transport, patternId)
  /\ ghost' = [Requested(ghost) EXCEPT
                 !.lastMain = patternId,
                 !.overwrote = \/ ghost.overwrote
                               \/ transport.queuedMainId \notin {NoId, patternId},
                 !.c6 = IF transport.activeFillId # NoId /\ ghost.reqs = 1
                           /\ ghost.lastFill # NoId
                        THEN patternId ELSE NoId]
  /\ budget' = budget - 1
  /\ UNCHANGED <<now, isPlaying, timer, ui, closure, emitted, prev, sound>>

\* a fill pad
StartFill(patternId) ==
  /\ budget > 0
  /\ LET fallback == IF ui.activeMainId # NoId THEN ui.activeMainId ELSE FirstMain
     IN IF ~isPlaying
        THEN \E r \in {startMain(fallback, ui, now, sound)} :
                /\ isPlaying' = TRUE
                /\ sound' = r.snd
                /\ timer' = r.timer
                /\ transport' = fillFromStart(r.tr, patternId, fallback)
                /\ ui' = r.ui
                /\ closure' = [activeLoop |-> ui.activeLoop]
                /\ emitted' = r.out
                /\ prev' = NoRec
                /\ ghost' = [ObserveAll(KeepPreview(GhostAtStart(ui), ghost), r.out, 1)
                               EXCEPT !.reqs = 1, !.lastFill = patternId,
                                      !.fillCount = 0,
                                      !.fillSpb = r.tr.stepsPerBar,
                                      !.mainAtQueue = r.tr.activeMainId,
                                      !.mainAtActivation = r.tr.activeMainId]
        ELSE /\ transport' = queueFill(transport, patternId)
             /\ ghost' = [Requested(ghost) EXCEPT
                            !.lastFill = patternId,
                            !.mainAtQueue = transport.activeMainId,
                            !.c1 = /\ ghost.reqs = 0
                                   /\ transport.live
                                   /\ transport.totalSteps = 2 * transport.stepsPerBar
                                   /\ currentStepOf(transport, now) = 5]
             /\ UNCHANGED <<isPlaying, timer, ui, closure, emitted, prev, sound>>
  /\ budget' = budget - 1
  /\ UNCHANGED now

\* the tempo preset selector
RequestTempo(value) ==
  /\ budget > 0
  /\ LET nextTempo == clampTempo(value)
     IN IF isPlaying
        THEN /\ transport' = queueTempo(transport, nextTempo)
             /\ ghost' = [Requested(ghost) EXCEPT !.lastTempo = nextTempo]
             /\ UNCHANGED ui
        ELSE /\ ui' = [ui EXCEPT !.playbackBpm = nextTempo]
             /\ UNCHANGED <<transport, ghost>>
  /\ budget' = budget - 1
  /\ UNCHANGED <<now, isPlaying, timer, closure, emitted, prev, sound>>

\* applyLoopBars, followed by the effect that stops pattern playback when the
\* displayed loop selection has changed
ApplyLoopBars(queued) ==
  /\ budget > 0
  /\ IF isPlaying
     THEN LET u1 == [ui EXCEPT !.queuedLoop = queued]
          IN /\ ui' = u1
             /\ IF displayLoop(u1) # displayLoop(ui)
                THEN /\ transport' = stopPatternPlayback.tr
                     /\ timer' = stopPatternPlayback.timer
                     /\ isPlaying' = stopPatternPlayback.playing
                     /\ emitted' = <<>>
                     /\ prev' = NoRec
                     /\ ghost' = GhostInit
                     /\ sound' = rebuildRoleSlices(stopSound(sound), displayLoop(u1))
                ELSE /\ transport' = queueLoop(transport, queued)
                     /\ ghost' = [Requested(ghost) EXCEPT !.lastLoop = queued]
                     /\ UNCHANGED <<timer, isPlaying, emitted, prev, sound>>
     ELSE LET u1 == [ui EXCEPT !.activeLoop = queued]
          IN /\ ui' = u1
             /\ sound' = IF displayLoop(u1) # displayLoop(ui)
                         THEN rebuildRoleSlices(sound, displayLoop(u1)) ELSE sound
             /\ ghost' = IF displayLoop(u1) # displayLoop(ui)
                         THEN DropPreview(ghost) ELSE ghost
             /\ UNCHANGED <<transport, timer, isPlaying, emitted, prev>>
  /\ budget' = budget - 1
  /\ UNCHANGED <<now, closure>>

\* applyStepsPerBar while playing
ApplyStepsPerBar(nextSteps) ==
  /\ isPlaying
  /\ budget > 0
  /\ LET safeSteps == 16
     IN /\ ui' = [ui EXCEPT !.queuedStepsPerBar = safeSteps]
        /\ transport' = queueStepsPerBar(transport, safeSteps)
  /\ ghost' = Requested(ghost)
  /\ budget' = budget - 1
  /\ UNCHANGED <<now, isPlaying, timer, closure, emitted, prev, sound>>

\* the stop button, or the space key, while playing
StopTransport ==
  /\ isPlaying
  /\ budget > 0
  /\ transport' = stopPatternPlayback.tr
  /\ timer' = stopPatternPlayback.timer
  /\ isPlaying' = stopPatternPlayback.playing
  /\ ui' = [ui EXCEPT !.queuedStepsPerBar = NoNum]
  /\ emitted' = <<>>
  /\ prev' = NoRec
  /\ ghost' = [KeepPreview(GhostInit, ghost) EXCEPT
                 !.stopTracked = sound.scheduledSources > 0 /\ sound.sourceEndTimes # <<>>,
                 !.stopHeld = sound.repeatHoldIndex # NoNum \/ sound.reverseHold.active]
  /\ sound' = stopSound(sound)
  /\ budget' = budget - 1
  /\ UNCHANGED <<now, closure>>

\* the interval timer fires
Tick(horizon) ==
  /\ timer
  /\ now + lookaheadMs <= horizon
  /\ now' = now + lookaheadMs
  /\ \E r \in {tick(transport, ui, isPlaying, now + lookaheadMs, closure, sound, 0)} :
        /\ transport' = r.tr
        /\ ui' = r.ui
        /\ emitted' = r.out
        /\ prev' = LastStep(prev, emitted)
        /\ ghost' = ObserveAll(ghost, r.out, 1)
        /\ sound' = r.snd
  /\ UNCHANGED <<isPlaying, timer, closure, budget>>

\* the interval timer fires and the sink rejects sub-trigger number failAt of the tick
TickRejecting(horizon, failAt) ==
  /\ timer
  /\ budget > 0
  /\ now + lookaheadMs <= horizon
  /\ now' = now + lookaheadMs
  /\ \E r \in {tick(transport, ui, isPlaying, now + lookaheadMs, closure, sound, failAt)} :
        /\ \E i \in DOMAIN r.out : \E k \in DOMAIN r.out[i].subs : ~r.out[i].subs[k].ok
        /\ transport' = r.tr
        /\ ui' = r.ui
        /\ emitted' = r.out
        /\ prev' = LastStep(prev, emitted)
        /\ ghost' = ObserveAll(ghost, r.out, 1)
        /\ sound' = r.snd
  /\ budget' = budget - 1
  /\ UNCHANGED <<isPlaying, timer, closure>>

\* a callback of the interval timer that runs although no timer is set any more
LateTick(horizon) ==
  /\ ~timer
  /\ budget > 0
  /\ now + lookaheadMs <= horizon
  /\ now' = now + lookaheadMs
  /\ \E r \in {tick(transport, ui, isPlaying, now + lookaheadMs, closure, sound, 0)} :
        /\ transport' = r.tr
        /\ ui' = r.ui
        /\ emitted' = r.out
        /\ prev' = LastStep(prev, emitted)
        /\ ghost' = [ObserveAll(ghost, r.out, 1) EXCEPT !.late = TRUE]
        /\ sound' = r.snd
  /\ budget' = budget - 1
  /\ UNCHANGED <<isPlaying, timer, closure>>

\* the raw index the display resolves for the step that sounds at device time t
\* (NoNum when there is no active pattern)
displayIndex(tr, t) ==
  LET step == Floor(t - tr.startTime, tr.playbackStepDuration) % tr.totalSteps
      activePatternId == IF tr.activeFillId # NoId THEN tr.activeFillId ELSE tr.activeMainId
      held == IF tr.activeFillId # NoId THEN tr.activeFillSteps ELSE tr.activeMainSteps
      activeSteps == IF held # NoId THEN held ELSE getPatternStepsById(activePatternId)
  IN IF activePatternId = NoId \/ activeSteps = NoId THEN NoNum
     ELSE IF tr.activeFillId # NoId /\ tr.fillStartStep # NoNum
     THEN LET fillStepIndex == (step - tr.fillStartStep + tr.stepsPerBar) % tr.stepsPerBar
              barsInLoop == Max(1, (2 * tr.baseTotalSteps + BASE_STEPS_PER_BAR)
                                     \div (2 * BASE_STEPS_PER_BAR))
              barOffset == Min(1, barsInLoop - 1) * BASE_STEPS_PER_BAR
              currentBar == Floor(fillStepIndex, tr.stepsPerBar)
              barStart == IF currentBar % 2 = 0 THEN 0 ELSE 16
              baseIndex == Floor(fillStepIndex * BASE_STEPS_PER_BAR, tr.stepsPerBar)
          IN toSliceIndex(resolveFillOffset(
                            PatternStep(activeSteps, baseIndex % PatternLength(activeSteps)),
                            barStart),
                          barOffset)
     ELSE LET baseStepIndex == Floor((step % tr.totalSteps) * tr.baseTotalSteps,
                                     tr.totalSteps)
              k == baseStepIndex % tr.baseTotalSteps
          IN toSliceIndex(PatternStep(activeSteps, k % PatternLength(activeSteps)), 0)

\* an animation frame of the display while playing
DisplayFrame ==
  /\ isPlaying
  /\ transport.live
  /\ now - transport.startTime >= 0
  /\ LET nextIndex == displayIndex(transport, now)
         m == mapRoleIndex(sound.roleSlices, sound.roleCursor, nextIndex, FALSE)
         shown == IF nextIndex # NoNum /\ m.slice >= 0 THEN m.slice ELSE NoNum
     IN /\ sound' = [sound EXCEPT !.currentSliceIndex = shown, !.roleCursor = m.cursors]
        /\ ghost' = IF nextIndex >= ROLE_BASE
                    THEN LET role == (nextIndex - ROLE_BASE) % 4
                         IN [ghost EXCEPT !.preview[role] = m.slice,
                                          !.previewCount[role] =
                                             Min(2, ghost.previewCount[role] + 1)]
                    ELSE ghost
  /\ UNCHANGED <<now, isPlaying, timer, transport, ui, closure, emitted, prev, budget>>

\* the r key goes down, or comes up
RepeatHold(down) ==
  /\ budget > 0
  /\ IF down
     THEN /\ sound.currentSliceIndex # NoNum
          /\ sound' = [sound EXCEPT !.repeatHoldIndex = sound.currentSliceIndex]
     ELSE /\ sound.repeatHoldIndex # NoNum
          /\ sound' = [sound EXCEPT !.repeatHoldIndex = NoNum]
  /\ budget' = budget - 1
  /\ UNCHANGED <<now, isPlaying, timer, transport, ui, closure, emitted, prev, ghost>>

\* the e key goes down, or comes up
ReverseHold(down) ==
  /\ budget > 0
  /\ IF down
     THEN /\ sound.currentSliceIndex # NoNum
          /\ sound' = [sound EXCEPT !.reverseHold = [active |-> TRUE,
                                                     startIndex |-> sound.currentSliceIndex,
                                                     offset |-> 0]]
     ELSE /\ sound.reverseHold.active
          /\ sound' = [sound EXCEPT !.reverseHold = NoHold]
  /\ budget' = budget - 1
  /\ UNCHANGED <<now, isPlaying, timer, transport, ui, closure, emitted, prev, ghost>>

\* the pattern the offline renderer takes
exportPatternId(tr, u) ==
  IF tr.live /\ tr.activeFillId # NoId THEN tr.activeFillId
  ELSE IF tr.live /\ tr.activeMainId # NoId THEN tr.activeMainId
  ELSE IF u.activeMainId # NoId THEN u.activeMainId
  ELSE FirstMain

\* what the offline renderer hands to its sink for one step
exportStep(steps, stepIndex, stepsPerLoop, baseTotalSteps, playbackStepDuration) ==
  LET baseStepIndex == Floor(stepIndex * baseTotalSteps, stepsPerLoop)
      k == baseStepIndex % baseTotalSteps
      resolved == resolveStepEvent(PatternStep(steps, k % PatternLength(steps)))
  IN IF resolved.index < 0
     THEN [when |-> stepIndex * playbackStepDuration, slice |-> NoNum,
           retrig |-> 0, gain |-> 0]
     ELSE [when |-> stepIndex * playbackStepDuration,
           slice |-> resolved.index % baseTotalSteps,
           retrig |-> Max(1, resolved.retrig),
           gain |-> IF resolved.gain = NoNum THEN FullGain ELSE resolved.gain]

\* the step loop of the offline renderer
renderExport(tr, u) ==
  LET activePatternId == exportPatternId(tr, u)
      loopParams == getLoopParams(u.activeLoop.bars, u.activeLoop.startBarIndex,
                                  LOCKED_STEPS_PER_BAR)
      stepsPerLoop == IF tr.live THEN tr.totalSteps ELSE loopParams.totalSteps
      baseTotalSteps == IF tr.live THEN tr.baseTotalSteps ELSE loopParams.baseTotalSteps
      playbackStepDuration == IF tr.live THEN tr.playbackStepDuration
                              ELSE StepDuration(u.playbackBpm, LOCKED_STEPS_PER_BAR)
  IN [ patternId |-> activePatternId,
       playbackStepDuration |-> playbackStepDuration,
       baseTotalSteps |-> baseTotalSteps,
       steps |-> [ n \in 1..stepsPerLoop |->
                     exportStep(getPatternStepsById(activePatternId), n - 1, stepsPerLoop,
                                baseTotalSteps, playbackStepDuration) ] ]

\* the offline renderer: one more item in the exports list
RenderExport ==
  /\ budget > 0
  /\ exportPatternId(transport, ui) \in patternsById
  /\ sound' = [sound EXCEPT !.exports = sound.exports + 1,
                            !.rendered = renderExport(transport, ui)]
  /\ budget' = budget - 1
  /\ UNCHANGED <<now, isPlaying, timer, transport, ui, closure, emitted, prev, ghost>>

Next ==
  \/ \E p \in MainIds : StartMain(p)
  \/ \E p \in MainIds : QueueMain(p)
  \/ \E p \in FillIds : StartFill(p)
  \/ \E v \in TempoChoices : RequestTempo(v)
  \/ \E l \in LoopChoices : ApplyLoopBars(l)
  \/ \E n \in {8, 16} : ApplyStepsPerBar(n)
  \/ StopTransport
  \/ Tick(MaxNowShort)

Spec == Init /\ [][Next]_vars

\* mains and fills only, over two phrases
NextFill ==
  \/ \E p \in MainIds : StartMain(p)
  \/ \E p \in MainIds : QueueMain(p)
  \/ \E p \in FillIds : StartFill(p)
  \/ Tick(MaxNow)

SpecFill == InitFill /\ [][NextFill]_vars

\* role pools as an analysis of the loop can leave them
PoolChoices ==
  { DefaultRoleSlices,
    [role \in 0..3 |-> CASE role = 0 -> <<5>>
                         [] role = 1 -> <<4, 12, 20>>
                         [] role = 2 -> <<9, 1>>
                         [] OTHER -> <<30, 31>>] }

InitSound ==
  /\ Mounted
  /\ ui.playbackBpm = 200
  /\ sound \in { SoundInit(pools) : pools \in PoolChoices }
  /\ budget = MaxSoundRequests

\* the sound path: holds, display, rejections by the sink, export, stop and restart
NextSound ==
  \/ \E p \in MainIds : StartMain(p)
  \/ StartFill("F")
  \/ \E l \in LoopChoices : ApplyLoopBars(l)
  \/ StopTransport
  \/ Tick(MaxNowSound)
  \/ \E failAt \in 1..2 : TickRejecting(MaxNowSound, failAt)
  \/ \E failAt \in 1..2 : StartMainRejecting("A", failAt)
  \/ LateTick(MaxNowSound)
  \/ DisplayFrame
  \/ \E down \in BOOLEAN : RepeatHold(down)
  \/ \E down \in BOOLEAN : ReverseHold(down)
  \/ RenderExport

SpecSound == InitSound /\ [][NextSound]_vars

\* role pools of which one or more has no candidate: getRoleSlice provides for
\* them, although the builders of the page fall back to the default candidates
EmptyPoolChoices ==
  { [DefaultRoleSlices EXCEPT ![role] = <<>>] : role \in 0..3 }
  \cup { [role \in 0..3 |-> <<>>] }

InitEmptyPool ==
  /\ Mounted
  /\ sound \in { SoundInit(pools) : pools \in EmptyPoolChoices }
  /\ budget = MaxSoundRequests

NextEmptyPool ==
  \/ \E p \in MainIds : StartMain(p)
  \/ \E p \in FillIds : StartFill(p)
  \/ StopTransport
  \/ Tick(MaxNowSound)

SpecEmptyPool == InitEmptyPool /\ [][NextEmptyPool]_vars

\* a pattern id that names no pattern of the pack
UnknownId == "X"

InitIds ==
  /\ Mounted
  /\ AnalysedDefault
  /\ ui.playbackBpm = 200
  /\ budget = MaxRequests

\* pads and keys that may carry any pattern id
NextIds ==
  \/ \E p \in MainIds \cup {UnknownId} : StartMain(p)
  \/ \E p \in MainIds \cup {UnknownId} : QueueMain(p)
  \/ \E p \in FillIds \cup {UnknownId} : StartFill(p)
  \/ StopTransport
  \/ Tick(MaxNowIds)

SpecIds == InitIds /\ [][NextIds]_vars

(***************************************************************************)
(* Properties                                                              *)
(***************************************************************************)
StepsOf(out) == { i \in DOMAIN out : out[i].kind = "step" }

\* C1: with a 2-bar loop at 16 steps per bar, main M playing and nothing else
\* requested, a fill requested while step 5 sounds becomes Active exactly at
\* step 32, steps 32..47 are resolved from the fill, and every other step,
\* step 48 and later included, is resolved from M.
C1_FillAtNextPhraseLine ==
  ghost.c1 =>
    \A i \in DOMAIN emitted :
      LET rec == emitted[i]
      IN /\ rec.kind = "step"
         /\ rec.stepsPerBar = 16
         /\ rec.fillActivated <=> rec.stepIndex = 32
         /\ IF rec.stepIndex \in 32..47
            THEN rec.fromFill /\ rec.patternId = ghost.lastFill
                 /\ rec.fillIdx = rec.stepIndex - 32
            ELSE ~rec.fromFill /\ rec.patternId = ui.activeMainId

\* C1 witness: the scenario has run past the fill, and step 48 came from M
C1_Witness ==
  /\ ghost.c1
  /\ ghost.fillEndStep = 47
  /\ \E i \in DOMAIN emitted :
       /\ emitted[i].stepIndex = 48
       /\ emitted[i].kind = "step"
       /\ emitted[i].patternId = ui.activeMainId
       /\ emitted[i].patternId # ghost.lastFill

\* C2: every step slot is resolved exactly once and no two resolutions are
\* handed to the sink for the same device time: in the order of resolution the
\* trigger times increase strictly, across ticks and across applied requests.
C2_NoStepTwiceNorMissed ==
  /\ \A i, j \in StepsOf(emitted) : i < j => emitted[i].when < emitted[j].when
  /\ \A i \in StepsOf(emitted) : prev.kind = "step" => prev.when < emitted[i].when

\* C3: an applied tempo change keeps the device time of its boundary step b:
\* origin_new + b * stepDuration_new = origin_old + b * stepDuration_old, the
\* old origin and duration being those in force when the change is applied.
C3_TempoKeepsPhase ==
  \A i \in DOMAIN emitted :
    LET rec == emitted[i]
    IN rec.tempoApplied =>
         rec.originNew + rec.tempoB * rec.dur = rec.originOld + rec.tempoB * rec.durOld

\* C7: after a loop or resolution change is applied, the next step resolved
\* is the new step 0 and it is scheduled exactly at the boundary time,
\* whatever else is applied in the same tick.
C7_ResetStartsAtBoundary ==
  \A i \in DOMAIN emitted :
    (emitted[i].kind \in {"loop", "steps"} /\ i + 1 \in StepsOf(emitted)) =>
      /\ emitted[i + 1].stepIndex = 0
      /\ emitted[i + 1].when = emitted[i].boundary

\* C8: a main change or a fill applied by the tick takes effect at a step
\* whose index is a multiple of 2 * stepsPerBar.
C8_AppliedOnPhraseLine ==
  \A i \in DOMAIN emitted :
    LET rec == emitted[i]
    IN (rec.mainApplied \/ rec.fillActivated) =>
         rec.stepIndex % (2 * rec.stepsPerBar) = 0

\* C4: each category has a single pending slot that holds the last request:
\* a pending value is always the last one requested in its category, and
\* whatever a tick applies is the last value requested before that tick, so
\* a request that was replaced is never applied.
C4_SingleSlotLastWins ==
  [][ /\ transport'.live =>
           /\ transport'.queuedMainId \in {NoId, ghost'.lastMain}
           /\ transport'.queuedFillId \in {NoId, ghost'.lastFill}
           /\ transport'.queuedPlaybackBpm \in {NoNum, ghost'.lastTempo}
           /\ transport'.queuedLoop \in {NoLoop, ghost'.lastLoop}
           /\ transport'.queuedStepsPerBar \in {NoNum, LOCKED_STEPS_PER_BAR}
      /\ now' # now =>
           \A i \in DOMAIN emitted' :
             LET rec == emitted'[i]
             IN /\ rec.mainApplied => rec.activeMainId = ghost.lastMain
                /\ rec.fillActivated => rec.patternId = ghost.lastFill
                /\ rec.tempoApplied => ui'.playbackBpm = ghost.lastTempo
                /\ rec.kind = "loop" => rec.loop = ghost.lastLoop
    ]_vars

\* C4 witness: a main request replaced a different pending one, and the tick
\* has applied a main change
C4_Witness ==
  /\ ghost.overwrote
  /\ \E i \in DOMAIN emitted :
       /\ emitted[i].mainApplied
       /\ emitted[i].kind = "step"
       /\ emitted[i].patternId = ghost.lastMain

\* C5: a fill that has ended resolved exactly as many steps from the fill
\* pattern as stepsPerBar was when it became Active, also when a loop,
\* resolution or tempo change was applied while it was Active.
C5_FillLastsOneBar ==
  ghost.fillLen # NoNum => ghost.fillLen = ghost.fillSpb

\* C5 witness: a fill has ended after a loop, resolution or tempo change was
\* applied while it was Active
C5_Witness ==
  /\ ghost.fillLen # NoNum
  /\ ghost.lenTouched
  /\ transport.activeFillId = NoId

\* the first phrase line after the last step of the fill that ended
PhraseLineAfterFill ==
  Ceil(ghost.fillEndStep + 1, 2 * LOCKED_STEPS_PER_BAR) * (2 * LOCKED_STEPS_PER_BAR)

\* C6: a main A is active, a fill is requested, and a switch to B is
\* requested while the fill is Active, nothing else being requested.  The
\* switch stays pending until it is applied, it is not applied at a step of
\* the fill, and it is applied exactly at the first phrase line after the
\* fill's last step: the steps between the fill and that line come from the
\* restored main, the steps from that line on come from B.
C6_SwitchQueuedDuringFill ==
  ghost.c6 # NoId =>
    /\ \/ transport.queuedMainId = ghost.c6
       \/ /\ transport.queuedMainId = NoId
          /\ transport.activeFillId = NoId
          /\ transport.activeMainId = ghost.c6
          /\ ghost.fillEndStep # NoNum
          /\ transport.nextStep > PhraseLineAfterFill
    /\ \A i \in DOMAIN emitted :
         LET rec == emitted[i]
         IN /\ rec.fillBefore # NoId => ~rec.mainApplied
            /\ rec.mainApplied =>
                 /\ ghost.fillEndStep # NoNum
                 /\ rec.stepIndex = PhraseLineAfterFill
                 /\ rec.activeMainId = ghost.c6
            /\ (rec.kind = "step" /\ ~rec.fromFill /\ ghost.fillEndStep # NoNum
                  /\ rec.stepIndex > ghost.fillEndStep) =>
                 rec.patternId = IF rec.stepIndex >= PhraseLineAfterFill
                                 THEN ghost.c6 ELSE ghost.restoredTo

\* C6 witness: the fill ran over steps 32..47 and the switch to a different
\* main has been applied at step 64
C6_Witness ==
  /\ ghost.c6 # NoId
  /\ ghost.c6 # ghost.restoredTo
  /\ ghost.restoredTo # NoId
  /\ ghost.fillEndStep = 47
  /\ \E i \in DOMAIN emitted :
       /\ emitted[i].mainApplied
       /\ emitted[i].kind = "step"
       /\ emitted[i].patternId = ghost.c6

\* C9: a tick applies no main change and activates no fill at a step where a
\* fill is Active, and as long as the fill stays Active the pending main and
\* the pending fill stay in their slots.
C9_FillDefersQueued ==
  [][ now' # now =>
        /\ \A i \in DOMAIN emitted' :
             emitted'[i].fillBefore # NoId =>
               ~emitted'[i].mainApplied /\ ~emitted'[i].fillActivated
        /\ (transport.activeFillId # NoId /\ transport'.activeFillId # NoId) =>
             /\ transport'.activeFillId = transport.activeFillId
             /\ transport'.queuedMainId = transport.queuedMainId
             /\ transport'.queuedFillId = transport.queuedFillId
    ]_vars

\* C9 witness: a main and a fill are pending, a fill is Active, and the tick
\* has resolved a step of that fill at or after the phrase line it computed
C9_Witness ==
  /\ transport.activeFillId # NoId
  /\ transport.queuedMainId # NoId
  /\ transport.queuedFillId # NoId
  /\ \E i \in DOMAIN emitted :
       /\ emitted[i].fromFill
       /\ emitted[i].stepIndex >=
            Ceil(currentStepOf(transport, now) + 1, 2 * transport.stepsPerBar)
              * (2 * transport.stepsPerBar)

\* C10 as stated: the main pattern restored when a fill ends is the one that
\* was active when the fill was requested.
C10_RestoresMainAtRequest ==
  ghost.restoredTo # NoId => ghost.restoredTo = ghost.restoredQueue

\* C10, amended: the main pattern restored when a fill ends is the one that
\* was active at the step where the fill became Active, a main change applied
\* at that same step included.
C10_RestoresMainAtActivation ==
  ghost.restoredTo # NoId => ghost.restoredTo = ghost.restoredAct

\* C10 witness: a fill has ended and restored a main pattern that was not the
\* active one when the fill was requested
C10_Witness ==
  /\ ghost.restoredTo # NoId
  /\ ghost.restoredQueue # NoId
  /\ ghost.restoredTo # ghost.restoredQueue
  /\ transport.activeMainId = ghost.restoredTo
  /\ transport.activeFillId = NoId

\* C11: a step whose event is a rest hands no trigger to the sink, whether it
\* comes from a main pattern or from an active fill, whatever the loop length
C11_RestIsSilent ==
  \A i \in StepsOf(emitted) : emitted[i].rest => emitted[i].subs = <<>>

\* C12: a sounded step of retrig count N and duration D that starts at t gets
\* exactly N sub-triggers, the k-th covering [t + k*D/N, t + (k+1)*D/N), all on
\* the same slice with the same gain
C12_RetrigSplitsStep ==
  \A i \in StepsOf(emitted) :
    LET rec == emitted[i]
        N == rec.retrig
    IN (rec.subs # <<>> /\ N >= 1) =>
         /\ Len(rec.subs) = N
         /\ \A k \in 1..N :
              /\ rec.subs[k].start * N = rec.when * SubUnit * N + (k - 1) * rec.dur * SubUnit
              /\ rec.subs[k].dur * N = rec.dur * SubUnit
              /\ rec.subs[k].slice = rec.slice
              /\ rec.subs[k].gain = rec.gain
              /\ rec.subs[k].ok

C12_Witness ==
  \E i \in StepsOf(emitted) :
    /\ emitted[i].fromFill /\ emitted[i].retrig = 4 /\ emitted[i].dur = 75
    /\ Len(emitted[i].subs) = 4
    /\ emitted[i].subs[4].start = (emitted[i].when * 4 + 3 * 75) * (SubUnit \div 4)

\* the first step of role r among the steps a tick resolved (0 when there is none)
FirstOfRole(out, r) ==
  LET hits == { i \in StepsOf(out) : out[i].role = r }
  IN IF hits = {} THEN 0 ELSE CHOOSE i \in hits : \A j \in hits : i <= j

\* C13: while no trigger of a role intervenes and the pools are not rebuilt for
\* another loop selection, every display resolution of that role gives the same
\* slice, and the next trigger of the role takes that slice
C13_PreviewIsNextTrigger ==
  [][ \A r \in 0..3 :
        ghost.preview[r] # NoNum =>
          /\ ghost'.preview[r] # NoNum => ghost'.preview[r] = ghost.preview[r]
          /\ (ghost'.preview[r] = NoNum /\ displayLoop(ui') = displayLoop(ui)) =>
                /\ FirstOfRole(emitted', r) # 0
                /\ emitted'[FirstOfRole(emitted', r)].mapped = ghost.preview[r] ]_vars

C13_Witness ==
  /\ ghost.previewUsed
  /\ \E r \in 0..3 : sound.roleCursor[r] > 0 /\ Len(sound.roleSlices[r]) > 1

\* the steps of role r that a tick sounded through the role mapping
SoundedOfRole(out, r) == Cardinality({ i \in StepsOf(out) : out[i].role = r })

\* this step ran the scheduling loop: a timer callback, or a start
Ticked == now' # now \/ (~isPlaying /\ isPlaying')

\* C14 as stated: a cursor moves only when the tick sounds a step of its role,
\* by one position modulo the pool length per such step
C14_CursorMovesOnlyWhenSounded ==
  [][ \A r \in 0..3 :
        sound'.roleCursor[r] =
          IF Ticked
          THEN (sound.roleCursor[r] + SoundedOfRole(emitted', r)) % Len(sound.roleSlices[r])
          ELSE sound.roleCursor[r] ]_vars

\* C14: a cursor moves when the tick sounds a step of its role, by one position
\* modulo the pool length per such step, and goes back to 0 when the pools are
\* rebuilt for another loop selection; nothing else moves it
C14_CursorMovesWhenSoundedOrRebuilt ==
  [][ \A r \in 0..3 :
        sound'.roleCursor[r] =
          IF displayLoop(ui') # displayLoop(ui) THEN 0
          ELSE IF Ticked
          THEN (sound.roleCursor[r] + SoundedOfRole(emitted', r)) % Len(sound.roleSlices[r])
          ELSE sound.roleCursor[r] ]_vars

C14_Witness ==
  /\ \E i \in StepsOf(emitted) : emitted[i].held /\ emitted[i].event >= ROLE_BASE
  /\ \E r \in 0..3 : sound.roleCursor[r] > 0
  /\ sound.exports > 0

Tracked(out) ==
  LET n[i \in 0..Len(out)] ==
        IF i = 0 THEN 0
        ELSE n[i - 1] + Cardinality({ k \in DOMAIN out[i].subs : out[i].subs[k].ok })
  IN n[Len(out)]

\* C16: a stop leaves no timer, no transport, no tracked trigger and no hold; a
\* timer callback that runs after it schedules nothing; and a start tracks the
\* triggers of its own first tick only
C16_StopLeavesNothing ==
  [][ /\ (isPlaying /\ ~isPlaying') =>
           /\ ~timer' /\ ~transport'.live
           /\ sound'.scheduledSources = 0 /\ sound'.sourceEndTimes = <<>>
           /\ sound'.repeatHoldIndex = NoNum /\ sound'.reverseHold = NoHold
      /\ (~timer /\ now' # now) =>
           /\ emitted' = <<>>
           /\ sound' = sound /\ transport' = transport /\ ~timer'
      /\ (~isPlaying /\ isPlaying') =>
           /\ sound'.scheduledSources = Tracked(emitted')
           /\ Len(sound'.sourceEndTimes) = Tracked(emitted')
           /\ sound'.repeatHoldIndex = NoNum /\ sound'.reverseHold = NoHold ]_vars

C16_Witness ==
  /\ ~isPlaying
  /\ ghost.stopTracked /\ ghost.stopHeld /\ ghost.late

Rejected(out) ==
  { <<i, k>> \in (DOMAIN out) \X (1..8) : k \in DOMAIN out[i].subs /\ ~out[i].subs[k].ok }

\* the same step with every sub-trigger accepted
Accepted(rec) ==
  [rec EXCEPT !.subs = [k \in DOMAIN rec.subs |-> [rec.subs[k] EXCEPT !.ok = TRUE]]]

\* what the tick of this step would have left had the sink accepted everything
SameTickAccepted ==
  IF now' # now THEN tick(transport, ui, isPlaying, now', closure, sound, 0)
  ELSE startMain(ui'.activeMainId, ui, now, sound)

\* C19: when the sink rejects one sub-trigger, that one only is dropped: the
\* tick resolves the same steps with the same sub-triggers, and leaves the
\* transport, the cursors and the holds as the tick without rejection does
C19_RejectionDropsOneTrigger ==
  [][ (Ticked /\ Rejected(emitted') # {}) =>
        \E clean \in {SameTickAccepted} :
          /\ Cardinality(Rejected(emitted')) = 1
          /\ transport' = clean.tr
          /\ ui' = clean.ui
          /\ Len(emitted') = Len(clean.out)
          /\ \A i \in DOMAIN emitted' : Accepted(emitted'[i]) = clean.out[i]
          /\ sound'.roleCursor = clean.snd.roleCursor
          /\ sound'.repeatHoldIndex = clean.snd.repeatHoldIndex
          /\ sound'.reverseHold = clean.snd.reverseHold
          /\ sound'.scheduledSources = clean.snd.scheduledSources - 1
          /\ Len(sound'.sourceEndTimes) = Len(clean.snd.sourceEndTimes) - 1 ]_vars

C19_Witness ==
  \E i \in StepsOf(emitted) :
    /\ Len(emitted[i].subs) = 3
    /\ ~emitted[i].subs[1].ok
    /\ emitted[i].subs[2].ok /\ emitted[i].subs[3].ok
    /\ transport.nextStep = emitted[i].stepIndex + 1
    /\ \E j \in StepsOf(emitted) : j < i /\ emitted[j].subs # <<>>

\* ---------------------------------------------------------------------------
\* Loop region requests: the loop picker and the bar-count selector
\* ---------------------------------------------------------------------------

\* the analysed track from its first downbeat to its end, in quarter bars
\* (durationSec - downbeat0Sec over barDuration / 4): four bars and a half
TrackQuarterBars == 18
MaxNowLoop == 300
MaxLoopRequests == 4

QuartersPerBar == 4

barCount == Max(1, TrackQuarterBars \div QuartersPerBar)

getMaxStartIndex(bars) == Max(0, barCount - bars)

maxStartBarIndex(u) == Max(0, barCount - displayLoop(u).bars)

clampNone(value, min, max) == value

clamp(value, min, max) == Min(max, Max(min, value))

\* startSec and endSec of a loop, in quarter bars after the first downbeat
loopRegion(loop) ==
  [ startQ |-> loop.startBarIndex * QuartersPerBar,
    endQ   |-> Min(TrackQuarterBars,
                   loop.startBarIndex * QuartersPerBar + loop.bars * QuartersPerBar) ]

applyLoopBars(bars, u) ==
  [ bars          |-> bars,
    startBarIndex |-> Min(getMaxStartIndex(bars), displayLoop(u).startBarIndex) ]

LoopBarsChange(bars) == ApplyLoopBars(applyLoopBars(bars, ui))

onStartBarChange(index, u) ==
  [ bars          |-> u.activeLoop.bars,
    startBarIndex |-> clamp(index, 0, maxStartBarIndex(u)) ]

StartBarChange(index) == ApplyLoopBars(onStartBarChange(index, ui))

LoopBarChoices == {1, 2, 4, 8}
\* bar indices the picker may hand over, some of them past the end of the track
StartIndexChoices == {0, 1, 3, 4, 7}

InitLoop ==
  /\ Mounted
  /\ AnalysedDefault
  /\ ui.playbackBpm = 200
  /\ budget = MaxLoopRequests

\* the horizon ends before the first loop boundary: a pending loop stays pending
NextLoop ==
  \/ StartMain("A")
  \/ \E bars \in LoopBarChoices : LoopBarsChange(bars)
  \/ \E index \in StartIndexChoices : StartBarChange(index)
  \/ StopTransport
  \/ Tick(MaxNowLoop)

SpecLoop == InitLoop /\ [][NextLoop]_vars

\* the loop the transport is playing
transportLoop(tr) ==
  [ bars          |-> tr.baseTotalSteps \div BASE_STEPS_PER_BAR,
    startBarIndex |-> tr.loopStartBar ]

PositiveDuration(loop) == loopRegion(loop).endQ > loopRegion(loop).startQ

\* C20: whatever region is requested, also one that starts at or past the end
\* of the track, the pending loop slot (the state's and the transport's) never
\* holds a region whose end is not after its start, and the loop the transport
\* plays is never such a region.
C20_NoDegenerateLoop ==
  /\ ui.queuedLoop # NoLoop => PositiveDuration(ui.queuedLoop)
  /\ transport.live =>
       /\ transport.queuedLoop # NoLoop => PositiveDuration(transport.queuedLoop)
       /\ PositiveDuration(transportLoop(transport))

\* a start past the end was requested before and during playback: the transport
\* plays the last two bars that fit and the same region is pending (bar 2 is in
\* no request, only the clamp yields it)
C20_Witness ==
  /\ isPlaying /\ transport.live
  /\ transport.loopStartBar = 2 /\ transport.baseTotalSteps = 2 * BASE_STEPS_PER_BAR
  /\ transport.queuedLoop = [bars |-> 2, startBarIndex |-> 2]
  /\ emitted # <<>>

\* ---------------------------------------------------------------------------
\* The hold keys on a running pattern
\* ---------------------------------------------------------------------------

MaxNowHold == 600
MaxHoldRequests == 3

InitHold ==
  /\ Mounted
  /\ AnalysedDefault
  /\ ui.playbackBpm = 200
  /\ budget = MaxHoldRequests

NextHold ==
  \/ StartMain("A")
  \/ Tick(MaxNowHold)
  \/ DisplayFrame
  \/ \E down \in BOOLEAN : RepeatHold(down)
  \/ \E down \in BOOLEAN : ReverseHold(down)

SpecHold == InitHold /\ [][NextHold]_vars

\* what an animation frame at time t would put into currentSliceIndex
shownSlice(tr, snd, t) ==
  LET nextIndex == displayIndex(tr, t)
      m == mapRoleIndex(snd.roleSlices, snd.roleCursor, nextIndex, FALSE)
  IN IF nextIndex # NoNum /\ m.slice >= 0 THEN m.slice ELSE NoNum

\* the display is up to date: the last animation frame ran at this instant
DisplayFresh ==
  /\ isPlaying /\ transport.live /\ now - transport.startTime >= 0
  /\ sound.currentSliceIndex = shownSlice(transport, sound, now)

\* the slice of the step that began to sound last, at or before time t
LastHeard(log, t) ==
  LET past == { k \in DOMAIN log : log[k].when <= t }
  IN IF past = {} THEN NoNum
     ELSE log[CHOOSE k \in past : \A j \in past : log[j].when <= log[k].when].slice

\* C21: the r key, pressed on an up-to-date display, holds the slice that sounded
\* last; while it is held, every step that a tick resolves is silent if it is a
\* rest and otherwise sounds the held slice, overriding the pattern and the roles
C21_RepeatHoldsLastSounded ==
  [][ /\ (sound.repeatHoldIndex = NoNum /\ sound'.repeatHoldIndex # NoNum /\ DisplayFresh)
         => sound'.repeatHoldIndex = LastHeard(ghost.heard, now)
      /\ (sound.repeatHoldIndex # NoNum /\ Ticked) =>
           \A i \in StepsOf(emitted') :
              IF emitted'[i].event < 0 THEN emitted'[i].subs = <<>>
              ELSE /\ emitted'[i].held /\ emitted'[i].role = NoNum
                   /\ emitted'[i].slice = sound.repeatHoldIndex % transport'.baseTotalSteps
                   /\ \A k \in DOMAIN emitted'[i].subs :
                         emitted'[i].subs[k].slice = emitted'[i].slice ]_vars

\* how many steps before position i of a tick's output went to the sink
SoundedBefore(out, i) ==
  Cardinality({ j \in StepsOf(out) : j < i /\ out[j].event >= 0 })

\* C22: the e key, pressed on an up-to-date display, takes the slice s that
\* sounded last; while it alone is held, the k-th step that sounds after the
\* first uses (s - k) mod baseTotalSteps; with both keys up, a step sounds what
\* the pattern says
C22_ReverseStepsBackFromLastSounded ==
  [][ /\ (~sound.reverseHold.active /\ sound'.reverseHold.active /\ DisplayFresh)
         => /\ sound'.reverseHold.startIndex = LastHeard(ghost.heard, now)
            /\ sound'.reverseHold.offset = 0
      /\ (sound.reverseHold.active /\ sound.repeatHoldIndex = NoNum /\ Ticked) =>
           /\ \A i \in StepsOf(emitted') :
                emitted'[i].event >= 0 =>
                  /\ emitted'[i].held
                  /\ emitted'[i].slice =
                       (sound.reverseHold.startIndex
                          - (sound.reverseHold.offset + SoundedBefore(emitted', i)))
                       % transport'.baseTotalSteps
           /\ sound'.reverseHold.offset =
                sound.reverseHold.offset + SoundedBefore(emitted', Len(emitted') + 1)
      /\ (~sound.reverseHold.active /\ sound.repeatHoldIndex = NoNum /\ Ticked) =>
           \A i \in StepsOf(emitted') :
              emitted'[i].event >= 0 =>
                /\ ~emitted'[i].held
                /\ emitted'[i].event < ROLE_BASE =>
                     emitted'[i].slice = emitted'[i].event % transport'.baseTotalSteps ]_vars

\* ---------------------------------------------------------------------------
\* The offline renderer beside the running transport
\* ---------------------------------------------------------------------------

MaxNowExport == 2500
MaxExportRequests == 3

InitExport ==
  /\ Mounted
  /\ AnalysedDefault
  /\ ui.playbackBpm = 200
  /\ budget = MaxExportRequests

\* a main is started and left alone; the export button is pressed at any moment
NextExport ==
  \/ \E p \in MainIds : StartMain(p)
  \/ StopTransport
  \/ RenderExport
  \/ Tick(MaxNowExport)

SpecExport == InitExport /\ [][NextExport]_vars

\* the last render was made of the pattern, loop and tempo that are playing
RenderedWhatPlays ==
  /\ transport.live
  /\ sound.rendered.patternId = transport.activeMainId
  /\ sound.rendered.playbackStepDuration = transport.playbackStepDuration
  /\ sound.rendered.baseTotalSteps = transport.baseTotalSteps
  /\ Len(sound.rendered.steps) = transport.totalSteps

\* C23: when the render was made of what is playing, every step 0..totalSteps-1
\* that the transport schedules has in the render the same time after the start,
\* the same slice (or silence), the same retrig count and the same gain
C23_ExportMatchesRealTime ==
  RenderedWhatPlays =>
    \A i \in StepsOf(emitted) :
       emitted[i].stepIndex < transport.totalSteps =>
         LET x == sound.rendered.steps[emitted[i].stepIndex + 1]
         IN /\ x.when = emitted[i].when - transport.startTime
            /\ x.slice = emitted[i].slice
            /\ emitted[i].slice # NoNum =>
                 /\ x.retrig = Max(1, emitted[i].retrig)
                 /\ x.gain = emitted[i].gain

\* the stop key, as against a stop that follows from a loop request
StopPressed == ~isPlaying' /\ ui'.queuedLoop = ui.queuedLoop

\* this step is a request made while the transport plays
RequestWhilePlaying ==
  /\ isPlaying /\ transport.live
  /\ now' = now /\ budget' = budget - 1
  /\ ~StopPressed

\* the transport with its five pending slots blanked
WithoutPending(tr) ==
  [tr EXCEPT !.queuedMainId = NoId, !.queuedFillId = NoId, !.queuedPlaybackBpm = NoNum,
             !.queuedLoop = NoLoop, !.queuedStepsPerBar = NoNum]

PendingChanged(old, new) ==
  Cardinality({ c \in {"main", "fill", "tempo", "loop", "steps"} :
                  CASE c = "main" -> new.queuedMainId # old.queuedMainId
                    [] c = "fill" -> new.queuedFillId # old.queuedFillId
                    [] c = "tempo" -> new.queuedPlaybackBpm # old.queuedPlaybackBpm
                    [] c = "loop" -> new.queuedLoop # old.queuedLoop
                    [] OTHER -> new.queuedStepsPerBar # old.queuedStepsPerBar })

\* C24: a request made while playing leaves the transport as it was but for one
\* pending slot at most: origin, step counter, step duration, active main and
\* fill and the fill countdown stay, and so does the transport itself
C24_RequestTouchesOnlyItsSlot ==
  [][ RequestWhilePlaying =>
        /\ transport'.live
        /\ WithoutPending(transport') = WithoutPending(transport)
        /\ PendingChanged(transport, transport') <= 1 ]_vars

\* this step asks, while the transport plays, for another loop than the one shown
LoopRequested ==
  /\ isPlaying /\ transport.live /\ timer
  /\ now' = now
  /\ ui'.queuedLoop # NoLoop /\ ui'.queuedLoop # ui.queuedLoop

\* C25: a loop asked for while playing leaves the transport playing, with its
\* timer, and waits in the pending loop slot
C25_LoopRequestKeepsPlaying ==
  [][ LoopRequested =>
        /\ isPlaying' /\ timer' /\ transport'.live
        /\ transport'.queuedLoop = ui'.queuedLoop
        /\ transport'.startTime = transport.startTime
        /\ transport'.nextStep = transport.nextStep ]_vars

\* C26: while the transport plays, once a tick has run, both tracking collections
\* refer only to triggers that end after the tick's device time: every tracked
\* end time is later than now, and the list of scheduled sources holds no more
\* than those triggers
C26_TrackingHoldsOnlyUnfinished ==
  (isPlaying /\ transport.live) =>
    /\ \A k \in DOMAIN sound.sourceEndTimes : sound.sourceEndTimes[k] > now * SubUnit
    /\ sound.scheduledSources = Len(sound.sourceEndTimes)

MaxNowLive == 5200
MaxLiveRequests == 3
\* the requests come in the first steps; the timer then runs on to the horizon
LastRequestAt == 300

InitLive ==
  /\ Mounted
  /\ AnalysedDefault
  /\ ui.playbackBpm = 200
  /\ budget = MaxLiveRequests

NextLive ==
  \/ (now <= LastRequestAt /\ StartMain("A"))
  \/ (now <= LastRequestAt /\ QueueMain("B"))
  \/ (now <= LastRequestAt /\ StartFill("F"))
  \/ (now <= LastRequestAt /\ RequestTempo(150))
  \/ (now <= LastRequestAt /\ ApplyStepsPerBar(8))
  \/ (now <= LastRequestAt /\ ApplyLoopBars([bars |-> 1, startBarIndex |-> 0]))
  \/ Tick(MaxNowLive)

\* the step of the clock that a timer callback makes: the steps of Tick are the
\* only ones that move now, and Tick can run whenever the timer is set
TimerFires(horizon) ==
  /\ timer
  /\ now + lookaheadMs <= horizon
  /\ now' = now + lookaheadMs

\* the timer callback runs every lookaheadMs for as long as the timer is set
SpecLive == InitLive /\ [][NextLive]_vars /\ WF_now(TimerFires(MaxNowLive))

MaxNowPeriod == 2800
MaxPeriodRequests == 3
PeriodBarChoices == {1, 4}

InitPeriod ==
  /\ Mounted
  /\ AnalysedDefault
  /\ ui.playbackBpm = 200
  /\ budget = MaxPeriodRequests

\* the loop length is chosen while nothing plays; a main then runs on it
NextPeriod ==
  \/ \E bars \in PeriodBarChoices : ~isPlaying /\ LoopBarsChange(bars)
  \/ \E p \in MainIds : StartMain(p)
  \/ StopTransport
  \/ Tick(MaxNowPeriod)

SpecPeriod == InitPeriod /\ [][NextPeriod]_vars

\* the StepEvent the pattern holds for logical step n of a loop of totalSteps
periodicStep(patternId, n, totalSteps) ==
  PatternStep(patternId, (n % totalSteps) % PatternLength(patternId))

\* C29: with no fill Active and no hold engaged, logical step n resolves
\* steps[(n mod totalSteps) mod length(steps)] of the active main pattern: a
\* pattern shorter than the loop is repeated over it
C29_MainRepeatsOverLoop ==
  transport.live =>
    \A i \in DOMAIN emitted :
      LET rec == emitted[i]
          stepEvent == periodicStep(rec.activeMainId, rec.stepIndex, transport.totalSteps)
          resolved == resolveStepEvent(stepEvent)
      IN (rec.kind = "step" /\ ~rec.fromFill /\ ~rec.held) =>
            /\ rec.patternId = rec.activeMainId
            /\ rec.rest = (stepEvent.kind = "null")
            /\ rec.event = resolved.index
            /\ ~rec.rest => /\ rec.retrig = resolved.retrig
                            /\ rec.gain = IF resolved.gain = NoNum THEN FullGain
                                          ELSE resolved.gain

\* step 35 of main A on a four-bar loop sounds what step 3 of the pattern holds
C29_Witness ==
  /\ transport.live /\ transport.totalSteps = 64 /\ transport.activeMainId = "A"
  /\ \E i \in DOMAIN emitted :
        /\ emitted[i].kind = "step" /\ emitted[i].stepIndex = 35
        /\ emitted[i].event = ROLE_KICK

\* C30: a concrete fill event with offset o sounds base slice o + b, where b is
\* 0 when the fill's bar lands on the first bar of the two-bar cycle and 16 when
\* it lands on the second
C30_FillAnchoredToItsBar ==
  transport.live =>
    \A i \in StepsOf(emitted) :
      LET rec == emitted[i]
          stepEvent == PatternStep(rec.patternId, rec.fillIdx % PatternLength(rec.patternId))
          bar == ((rec.stepIndex % transport.totalSteps) \div transport.stepsPerBar) % 2
          b == bar * BASE_STEPS_PER_BAR
      IN (rec.fromFill /\ stepEvent.kind # "null" /\ stepEvent.i < ROLE_BASE) =>
            /\ rec.slice = stepEvent.i + b
            /\ rec.subs # <<>>

(***************************************************************************)
(* The look-ahead window of a tick                                         *)
(***************************************************************************)
\* the device time of logical step n under the origin and step duration in force
deviceTimeOf(tr, n) == tr.startTime + n * tr.playbackStepDuration

\* C31: when a tick has returned while playing, the next unresolved step lies at
\* or beyond now + look-ahead, and no step the tick resolved does
C31_ResolvedExactlyInsideWindow ==
  (isPlaying /\ transport.live) =>
     /\ deviceTimeOf(transport, transport.nextStep) >= now + scheduleAheadMs
     /\ \A i \in StepsOf(emitted) : emitted[i].when < now + scheduleAheadMs

MaxNowDisplay == 700
MaxDisplayRequests == 2

InitDisplay ==
  /\ Mounted
  /\ AnalysedDefault
  /\ ui.playbackBpm = 200
  /\ budget = MaxDisplayRequests

\* a main runs untouched; animation frames come at any moment
NextDisplay ==
  \/ \E p \in MainIds : StartMain(p)
  \/ StopTransport
  \/ Tick(MaxNowDisplay)
  \/ DisplayFrame

SpecDisplay == InitDisplay /\ [][NextDisplay]_vars

\* C33: the slice index an up-to-date display reports while a step sounds is the
\* slice the tick scheduled for that step, role-marker steps included
C33_DisplayShowsWhatSounds ==
  DisplayFresh =>
    \A k \in DOMAIN ghost.heard :
      (/\ ghost.heard[k].when <= now
       /\ now < ghost.heard[k].when + transport.playbackStepDuration)
         => sound.currentSliceIndex = ghost.heard[k].slice

\* C34: the start times handed to the sink never go back, in scheduling order,
\* under any interleaving of tempo, loop and resolution changes
C34_StartTimesNeverGoBack ==
  \A k, l \in DOMAIN ghost.heard :
    k < l => ghost.heard[k].when <= ghost.heard[l].when

(***************************************************************************)
(* A fill pad that may carry any id, under a timer that keeps firing       *)
(***************************************************************************)
\* requests are made in the first LastRequestAt ms; the timer runs on
NextFillLive ==
  \/ (now <= LastRequestAt /\ StartMain("A"))
  \/ (now <= LastRequestAt /\ QueueMain("B"))
  \/ \E p \in FillIds \cup {UnknownId} : (now <= LastRequestAt /\ StartFill(p))
  \/ Tick(MaxNowLive)

SpecFillLive == InitLive /\ [][NextFillLive]_vars /\ WF_now(TimerFires(MaxNowLive))

C36_FillFromStopCoversFirstBar ==
  (isPlaying /\ transport.live /\ ghost.mainAtActivation # NoId) =>
     \A i \in StepsOf(emitted) :
        emitted[i].stepIndex < 2 * transport.stepsPerBar =>
           (emitted[i].fromFill <=> emitted[i].stepIndex < transport.stepsPerBar)

\* C37: in every playing state the fill bookkeeping is all null (Idle) or all
\* set (Active), and while Active 1 <= fillStepsRemaining <= stepsPerBar and
\* fillStepIndex + fillStepsRemaining = stepsPerBar
C37_FillBookkeepingConsistent ==
  (isPlaying /\ transport.live) =>
     \/ /\ transport.activeFillId = NoId
        /\ transport.fillStepsRemaining = NoNum
        /\ transport.fillStepIndex = NoNum
        /\ transport.mainBeforeFillId = NoId
     \/ /\ transport.activeFillId # NoId
        /\ transport.fillStepsRemaining # NoNum
        /\ transport.fillStepIndex # NoNum
        /\ transport.mainBeforeFillId # NoId
        /\ 1 <= transport.fillStepsRemaining
        /\ transport.fillStepsRemaining <= transport.stepsPerBar
        /\ transport.fillStepIndex + transport.fillStepsRemaining = transport.stepsPerBar

\* a fill is Active with five of its steps resolved and eleven to go
C37_Witness ==
  /\ isPlaying /\ transport.live
  /\ transport.activeFillId \in FillIds
  /\ transport.fillStepIndex = 5 /\ transport.fillStepsRemaining = 11

firstFrame(tr, u, t, snd) ==
  [tr |-> tr, ui |-> u, b |-> Boundaries(tr, t),
   stepIndex |-> 0, when |-> 0, cur |-> NoRec, out |-> <<>>,
   snd |-> [snd EXCEPT !.sourceEndTimes = PruneEnded(snd.sourceEndTimes, t)],
   failAt |-> 0, calls |-> 0]

\* the boundary times of f that can still move the origin or the step counter
resetsLeft(f) ==
  (IF f.b.loopBoundaryTime # NoTime THEN 1 ELSE 0)
  + (IF f.b.stepsBoundaryTime # NoTime THEN 1 ELSE 0)
  + (IF f.b.tempoBoundaryTime # NoTime THEN 1 ELSE 0)

\* the steps between nextStep and the end of the look-ahead window of the tick
\* that reads device time t
stepsLeft(f, t) ==
  IF f.tr.playbackStepDuration <= 0 THEN NoNum
  ELSE Max(0, Ceil(t + scheduleAheadMs - deviceTimeOf(f.tr, f.tr.nextStep),
                   f.tr.playbackStepDuration))

\* one iteration took f to g: fewer resets left, or as many and fewer steps left
Decreased(f, g, t) ==
  /\ stepsLeft(f, t) # NoNum /\ stepsLeft(g, t) # NoNum
  /\ \/ resetsLeft(g) < resetsLeft(f)
     \/ resetsLeft(g) = resetsLeft(f) /\ stepsLeft(g, t) < stepsLeft(f, t)

\* every iteration of the loop that starts from f decreases that measure
RECURSIVE LoopDecreases(_, _, _)
LoopDecreases(f, t, cl) ==
  IF deviceTimeOf(f.tr, f.tr.nextStep) < t + scheduleAheadMs
  THEN \E g \in {LoopBody(f, cl)} : Decreased(f, g, t) /\ LoopDecreases(g, t, cl)
  ELSE TRUE

\* C39: every tick terminates: whatever the transport holds and whatever is
\* pending, each iteration of the loop of the next tick (or of the tick that
\* startMain runs before it sets the timer) uses up a pending reset or brings
\* nextStep one step nearer to the end of the look-ahead window
C39_TickTerminates ==
  /\ (timer /\ isPlaying /\ transport.live) =>
        LoopDecreases(firstFrame(transport, ui, now + lookaheadMs, sound),
                      now + lookaheadMs, closure)
  /\ ~isPlaying =>
        \A p \in MainIds : \E u1 \in {[ui EXCEPT !.activeMainId = p]} :
           LoopDecreases(firstFrame(newTransport(p, u1, now), u1, now, stopSound(sound)),
                         now, [activeLoop |-> u1.activeLoop])

\* a tick has applied a loop change and a tempo change and resolved steps after them
C39_Witness ==
  /\ isPlaying /\ transport.live
  /\ \E i, j, k \in DOMAIN emitted :
        /\ i < j /\ j < k
        /\ emitted[i].kind = "loop"
        /\ emitted[j].tempoApplied
        /\ emitted[k].kind = "step"

====
